---- MODULE Spec2Model ----
(***************************************************************************)
(* Suggestion lifecycle and debounced scheduling of the AI Grammar         *)
(* Assistant plugin: AIGrammarAssistant (src/src/index.ts),                *)
(* AutocompleteService (src/src/index.ts), RealTimeGrammarChecker          *)
(* (src/unnamed/part_003) and the text utilities                           *)
(* (src/src/utils/textUtils.ts).                                           *)
(*                                                                         *)
(* Text is a sequence of one-character strings.  Every action is one task  *)
(* of the single-threaded event loop: an event handler, a timer callback   *)
(* or the continuation of an awaited provider call.  Time is discrete:     *)
(* a pending timeout is the number of ticks left before it is due, and     *)
(* time does not advance past a timeout that is due.                       *)
(***************************************************************************)
EXTENDS Integers, Sequences, FiniteSets, TLC

VARIABLES
    doc,            \* editor.getValue(): the text of the open note
    cursor,         \* flat offset of the editor's cursor, 0..Len(doc)
    settings,       \* AISettings fields read by the lifecycles
    plugin,         \* AIGrammarAssistant: activeEditor, isRateLimited, rateLimitTimer
    ac,             \* AutocompleteService fields and its pending timeouts
    rt,             \* RealTimeGrammarChecker fields, its pending timeouts and open popups
    acCalls,        \* provider.getAutocompleteSuggestion calls in flight
    gCalls,         \* provider.getGrammarSuggestions calls in flight
    hist,           \* history: per debounce channel the ticks since the last schedule
                    \* call that armed a timeout, the calls of the burst and the
                    \* callback runs since; the ticks since the last rate-limit trip
    budget,         \* the edits, cursor moves back and commands the user has left
    util            \* what one specification examines beside the lifecycles: a
                    \* call of a function of textUtils.ts (its arguments and,
                    \* once it has returned, its result), a recorded handler
                    \* call, an on-demand operation of GrammarService, the
                    \* second editor, or the provider's configuration

vars == <<doc, cursor, settings, plugin, ac, rt, acCalls, gCalls, hist, budget, util>>

----------------------------------------------------------------------------
(* Bounds of the model *)

\* settings.rateLimitBackoff, in ticks of 500 ms
RateLimitBackoffTicks == 3
\* words of the context and of the suggestion given to removeDuplicatePrefix
MaxContextWords == 2
MaxSuggestionWords == 3
\* the minLength given to shouldTriggerAutocomplete
MaxMinLength == 3
\* schedule calls of one debounce burst
MaxBurst == 3
\* on-demand operations of the user
MaxOperations == 2
\* edits, cursor moves back and manual triggers of the user
MaxEdits == 1
MaxGrammarEdits == 2
MaxMoves == 1
MaxTriggers == 2

(* Program constants, delays in ticks of 500 ms *)

\* DEFAULT_SETTINGS.autocompleteDebounceMs (500) and .debounceMs (1000)
AutocompleteDebounceTicks == 1
GrammarDebounceTicks == 2
\* the delay of accept's setTimeout (500)
AcceptGuardTicks == 1
\* the characters before the cursor getSuggestion sends, and the minLength
\* it passes to shouldTriggerAutocomplete
ContextWindow == 300
MinContextLength == 10

----------------------------------------------------------------------------
(* Characters and strings *)

IsSpace(c) == c \in {" ", "\n", "\t", "\r"}

UpperLetters == {"E", "L", "O", "W", "R", "D", "A", "T", "H", "K", "I"}
LowerLetters == {"e", "l", "o", "w", "r", "d", "a", "t", "h", "k", "i"}

\* the letters in the order of the alphabet, lower case and upper case
LowerCase == <<"a", "d", "e", "h", "i", "k", "l", "o", "r", "t", "w">>
UpperCase == <<"A", "D", "E", "H", "I", "K", "L", "O", "R", "T", "W">>

toLowerCase(c) ==
    IF c \in UpperLetters
    THEN LowerCase[CHOOSE i \in DOMAIN UpperCase : UpperCase[i] = c]
    ELSE c

toUpperCase(c) ==
    IF c \in LowerLetters
    THEN UpperCase[CHOOSE i \in DOMAIN LowerCase : LowerCase[i] = c]
    ELSE c

IsWordChar(c) == c \in UpperLetters \cup LowerLetters \cup {"0", "1"}

Max(a, b) == IF a >= b THEN a ELSE b
Min(a, b) == IF a <= b THEN a ELSE b

\* String.prototype.substring(from, to) with 0-based half-open offsets
substring(s, from, to) ==
    LET f == Max(0, Min(Min(from, to), Len(s)))
        t == Max(0, Min(Max(from, to), Len(s)))
    IN SubSeq(s, f + 1, t)

RECURSIVE trimStart(_)
trimStart(s) ==
    IF s = <<>> THEN s
    ELSE IF IsSpace(Head(s)) THEN trimStart(Tail(s)) ELSE s

RECURSIVE trimEnd(_)
trimEnd(s) ==
    IF s = <<>> THEN s
    ELSE IF IsSpace(s[Len(s)]) THEN trimEnd(SubSeq(s, 1, Len(s) - 1)) ELSE s

trim(s) == trimEnd(trimStart(s))

\* s.replace(/^[\r\n]+/, '')
RECURSIVE stripLeadingNewlines(_)
stripLeadingNewlines(s) ==
    IF s = <<>> THEN s
    ELSE IF Head(s) \in {"\r", "\n"} THEN stripLeadingNewlines(Tail(s)) ELSE s

LastChar(s) == IF s = <<>> THEN "" ELSE s[Len(s)]

\* String.prototype.toLowerCase of a text
toLowerCaseText(s) == [i \in 1..Len(s) |-> toLowerCase(s[i])]

\* the length of the longest prefix of s without whitespace
RECURSIVE WordLength(_)
WordLength(s) ==
    IF s = <<>> \/ IsSpace(Head(s)) THEN 0 ELSE 1 + WordLength(Tail(s))

\* s.split(/\s+/): the pieces between the runs of whitespace; the empty text
\* has one piece, the empty word
RECURSIVE split(_)
split(s) ==
    LET word == SubSeq(s, 1, WordLength(s))
        remaining == SubSeq(s, WordLength(s) + 1, Len(s))
    IN IF remaining = <<>> THEN <<word>>
       ELSE <<word>> \o split(trimStart(remaining))

\* words.join(' ')
RECURSIVE join(_)
join(words) ==
    IF words = <<>> THEN <<>>
    ELSE IF Len(words) = 1 THEN words[1]
    ELSE words[1] \o <<" ">> \o join(Tail(words))

\* s.startsWith(prefix)
startsWith(s, prefix) ==
    Len(prefix) <= Len(s) /\ SubSeq(s, 1, Len(prefix)) = prefix

----------------------------------------------------------------------------
(* textUtils.ts *)

\* the last overlapCount words of the context are, case-folded, the first
\* overlapCount words of the suggestion
OverlapsBy(contextWords, suggestionWords, overlapCount) ==
    LET contextEnd == SubSeq(contextWords, Len(contextWords) - overlapCount + 1,
                             Len(contextWords))
        suggestionStart == [i \in 1..overlapCount |->
                               toLowerCaseText(suggestionWords[i])]
    IN contextEnd = suggestionStart

\* the loop of removeDuplicatePrefix continued down to the smallest overlap
RECURSIVE FirstOverlap_Smallest(_, _, _)
FirstOverlap_Smallest(contextWords, suggestionWords, overlapCount) ==
    IF overlapCount <= 0 THEN 0
    ELSE LET below == FirstOverlap_Smallest(contextWords, suggestionWords,
                                            overlapCount - 1)
         IN IF below > 0 THEN below
            ELSE IF OverlapsBy(contextWords, suggestionWords, overlapCount)
            THEN overlapCount
            ELSE 0

\* the loop of removeDuplicatePrefix from overlapCount downwards: the first
\* overlapCount at which the context's end is the suggestion's start, or 0
RECURSIVE FirstOverlap(_, _, _)
FirstOverlap(contextWords, suggestionWords, overlapCount) ==
    IF overlapCount <= 0 THEN 0
    ELSE IF OverlapsBy(contextWords, suggestionWords, overlapCount) THEN overlapCount
    ELSE FirstOverlap(contextWords, suggestionWords, overlapCount - 1)

removeDuplicatePrefix(context, suggestion) ==
    LET contextWords == split(toLowerCaseText(trim(context)))
        suggestionWords == split(trim(suggestion))
        overlapCount == FirstOverlap(contextWords, suggestionWords,
                                     Min(Len(contextWords), Len(suggestionWords)))
        lastContextWord == contextWords[Len(contextWords)]
        firstSuggestionWord == toLowerCaseText(suggestionWords[1])
        remaining == SubSeq(firstSuggestionWord, Len(lastContextWord) + 1,
                            Len(firstSuggestionWord))
    IN IF overlapCount > 0
       THEN join(SubSeq(suggestionWords, overlapCount + 1, Len(suggestionWords)))
       ELSE IF /\ startsWith(firstSuggestionWord, lastContextWord)
               /\ firstSuggestionWord # lastContextWord
               /\ Len(remaining) > 0
       THEN remaining \o join(Tail(suggestionWords))
       ELSE suggestion

\* shouldTriggerAutocomplete without the final return false: a cursor in the
\* middle of a word triggers
shouldTriggerAutocomplete_MidWord(contextBefore, minLength) ==
    LET trimmedContext == trim(contextBefore)
    IN Len(trimmedContext) >= minLength
          /\ (contextBefore = <<>> \/ ~IsSpace(LastChar(contextBefore)))

shouldTriggerAutocomplete(contextBefore, minLength) ==
    LET trimmedContext == trim(contextBefore)
        textBeforeSpace == trimEnd(contextBefore)
        last == LastChar(textBeforeSpace)
    IN IF Len(trimmedContext) < minLength THEN FALSE
       ELSE IF contextBefore = <<>> THEN TRUE
       ELSE IF IsSpace(LastChar(contextBefore))
            THEN \/ last \in {".", "!", "?"}
                 \/ last \in {",", ";", ":"}
                 \/ IsWordChar(last) \/ last \in {"'", "\"", ")", "]"}
            ELSE FALSE

\* /\n\s*$/ : a newline followed only by whitespace up to the end
EndsWithNewlineThenSpace(s) ==
    \E i \in 1..Len(s) : s[i] = "\n" /\ \A j \in i..Len(s) : IsSpace(s[j])

\* isAtSentenceStart without the test for a newline
isAtSentenceStart_NoNewline(contextBefore) ==
    LET trimmed == trimEnd(contextBefore)
    IN \/ Len(trimmed) = 0
       \/ LastChar(trimmed) \in {".", "!", "?"}

isAtSentenceStart(contextBefore) ==
    LET trimmed == trimEnd(contextBefore)
    IN \/ Len(trimmed) = 0
       \/ LastChar(trimmed) \in {".", "!", "?"}
       \/ EndsWithNewlineThenSpace(contextBefore)

\* the first offset from i on at which s has no whitespace
RECURSIVE skipWhitespace(_, _)
skipWhitespace(s, i) ==
    IF i <= Len(s) /\ IsSpace(s[i]) THEN skipWhitespace(s, i + 1) ELSE i

\* the first offset from i on at which s has no digit
RECURSIVE skipDigits(_, _)
skipDigits(s, i) ==
    IF i <= Len(s) /\ s[i] = "1" THEN skipDigits(s, i + 1) ELSE i

SyntaxError == [ok |-> FALSE]

\* JSON.parse from offset i, for texts of brackets, braces, commas, the digit 1
\* and whitespace: a value is a number, the empty object or an array of
\* values; the result is the value and the offset after it, or a SyntaxError
RECURSIVE parseValue(_, _)
RECURSIVE parseElements(_, _, _)
parseValue(s, i) ==
    IF i > Len(s) THEN SyntaxError
    ELSE IF s[i] = "1"
    THEN [ok |-> TRUE, next |-> skipDigits(s, i),
          value |-> [type |-> "number", digits |-> skipDigits(s, i) - i]]
    ELSE IF s[i] = "{"
    THEN LET close == skipWhitespace(s, i + 1)
         IN IF close <= Len(s) /\ s[close] = "}"
            THEN [ok |-> TRUE, next |-> close + 1, value |-> [type |-> "object"]]
            ELSE SyntaxError
    ELSE IF s[i] = "["
    THEN LET first == skipWhitespace(s, i + 1)
         IN IF first <= Len(s) /\ s[first] = "]"
            THEN [ok |-> TRUE, next |-> first + 1,
                  value |-> [type |-> "array", items |-> <<>>]]
            ELSE parseElements(s, first, <<>>)
    ELSE SyntaxError

\* the elements of an array from offset i, after those in items
parseElements(s, i, items) ==
    LET element == parseValue(s, i)
        after == IF element.ok THEN skipWhitespace(s, element.next) ELSE i
    IN IF ~element.ok \/ after > Len(s) THEN SyntaxError
       ELSE IF s[after] = "]"
       THEN [ok |-> TRUE, next |-> after + 1,
             value |-> [type |-> "array", items |-> Append(items, element.value)]]
       ELSE IF s[after] = ","
       THEN parseElements(s, skipWhitespace(s, after + 1), Append(items, element.value))
       ELSE SyntaxError

\* JSON.parse(s)
JSONparse(s) ==
    LET parsed == parseValue(s, skipWhitespace(s, 1))
    IN IF parsed.ok /\ skipWhitespace(s, parsed.next) > Len(s) THEN parsed
       ELSE SyntaxError

\* the backquote character, which a TLA+ string cannot hold
Backquote == "backquote"

Fence == <<Backquote, Backquote, Backquote>>

\* the first replace of parseJsonArray: an opening fence of three backquotes,
\* the tag json and the whitespace after them are removed
stripOpeningFence(s) ==
    IF ~startsWith(s, Fence) THEN s
    ELSE LET afterFence == SubSeq(s, 4, Len(s))
             afterTag == IF startsWith(afterFence, <<"j", "s", "o", "n">>)
                         THEN SubSeq(afterFence, 5, Len(afterFence))
                         ELSE afterFence
         IN trimStart(afterTag)

\* the second replace of parseJsonArray: a closing fence at the end, the
\* newline before it and the whitespace after it are removed
stripClosingFence(s) ==
    LET t == trimEnd(s)
        n == Len(t)
    IN IF n < 3 \/ SubSeq(t, n - 2, n) # Fence THEN s
       ELSE IF n > 3 /\ t[n - 3] = "\n" THEN SubSeq(t, 1, n - 4)
       ELSE SubSeq(t, 1, n - 3)

\* parsed.match(/\[[\s\S]*\]/): from the first [ to the last ], <<>> for no match
matchBrackets(s) ==
    LET opens == {i \in 1..Len(s) : s[i] = "["}
        from == CHOOSE i \in opens : \A j \in opens : i <= j
        closes == {i \in 1..Len(s) : s[i] = "]" /\ i > from}
        to == CHOOSE i \in closes : \A j \in closes : j <= i
    IN IF opens = {} THEN <<>>
       ELSE IF closes = {} THEN <<>>
       ELSE SubSeq(s, from, to)

\* the text parseJsonArray hands to JSON.parse: the trimmed content without
\* its code fence and, unless it starts with a bracket or a brace, its part
\* from the first [ to the last ]
extractJson(content) ==
    LET stripped == trim(stripClosingFence(stripOpeningFence(trim(content))))
    IN IF /\ ~startsWith(stripped, <<"[">>)
          /\ ~startsWith(stripped, <<"{">>)
          /\ matchBrackets(stripped) # <<>>
       THEN matchBrackets(stripped)
       ELSE stripped

\* parseJsonArray without the Array.isArray test
parseJsonArray_AnyValue(content) ==
    LET result == JSONparse(extractJson(content))
    IN IF ~result.ok THEN <<>>
       ELSE IF result.value.type = "array" THEN result.value.items
       ELSE <<result.value>>

parseJsonArray(content) ==
    LET result == JSONparse(extractJson(content))
    IN IF result.ok /\ result.value.type = "array" THEN result.value.items ELSE <<>>

\* temperature is in tenths
DEFAULT_SETTINGS ==
    [provider |-> "zai",
     apiKeys |-> [zai |-> "", openai |-> "", straico |-> ""],
     model |-> "GLM-4-32B-0414-128K",
     baseUrl |-> "https://api.z.ai/api/paas/v4/chat/completions",
     realTimeEnabled |-> TRUE,
     debounceMs |-> 1000,
     rateLimitBackoff |-> 60000,
     temperature |-> 1,
     autocompleteEnabled |-> TRUE,
     autocompleteDebounceMs |-> 500,
     autocompleteMaxTokens |-> 50]

\* the value null, apart from every object
null == [null |-> TRUE]

\* Object.assign({}, target, source): the properties of source over those of
\* target; a null source has none
ObjectAssign(target, source) ==
    IF source = null THEN target
    ELSE [k \in DOMAIN target \cup DOMAIN source |->
            IF k \in DOMAIN source THEN source[k] ELSE target[k]]

\* loadedData && loadedData.apiKey && !loadedData.apiKeys
HasLegacyKeyOnly(loadedData) ==
    /\ loadedData # null
    /\ "apiKey" \in DOMAIN loadedData
    /\ loadedData.apiKey # ""
    /\ "apiKeys" \notin DOMAIN loadedData

\* the migration that leaves the legacy apiKey in the loaded object
migrateLoadedData_KeepsApiKey(loadedData) ==
    IF HasLegacyKeyOnly(loadedData)
    THEN [k \in DOMAIN loadedData \cup {"apiKeys"} |->
            IF k = "apiKeys"
            THEN [zai |-> loadedData.apiKey, openai |-> "", straico |-> ""]
            ELSE loadedData[k]]
    ELSE loadedData

\* migrateSettings: the loaded object as the call leaves it
migrateLoadedData(loadedData) ==
    IF HasLegacyKeyOnly(loadedData)
    THEN [k \in (DOMAIN loadedData \ {"apiKey"}) \cup {"apiKeys"} |->
            IF k = "apiKeys"
            THEN [zai |-> loadedData.apiKey, openai |-> "", straico |-> ""]
            ELSE loadedData[k]]
    ELSE loadedData

migrateSettings(loadedData) ==
    ObjectAssign(DEFAULT_SETTINGS, migrateLoadedData(loadedData))

extractWhitespace(text) ==
    [leading |-> SubSeq(text, 1, Len(text) - Len(trimStart(text))),
     trailing |-> SubSeq(text, Len(trimEnd(text)) + 1, Len(text)),
     content |-> trim(text)]

\* preserveCapitalization without the test of isStartOfSentence
preserveCapitalization_AlsoAtSentenceStart(originalText, correctedText, isStartOfSentence) ==
    LET startsWithLowercase ==
            trim(originalText) # <<>> /\ Head(trim(originalText)) \in LowerLetters
    IN IF Len(correctedText) = 0 THEN correctedText
       ELSE IF startsWithLowercase
       THEN <<toLowerCase(Head(correctedText))>> \o Tail(correctedText)
       ELSE correctedText

preserveCapitalization(originalText, correctedText, isStartOfSentence) ==
    LET startsWithLowercase ==
            trim(originalText) # <<>> /\ Head(trim(originalText)) \in LowerLetters
    IN IF Len(correctedText) = 0 THEN correctedText
       ELSE IF ~isStartOfSentence /\ startsWithLowercase
       THEN <<toLowerCase(Head(correctedText))>> \o Tail(correctedText)
       ELSE correctedText

\* adjustSuggestionCasing that returns the suggestion as it is
adjustSuggestionCasing_AsIs(suggestion, isStartOfSentence) == suggestion

adjustSuggestionCasing(suggestion, isStartOfSentence) ==
    IF suggestion = <<>> THEN suggestion
    ELSE LET cleaned == trimStart(suggestion)
             leading == SubSeq(suggestion, 1, Len(suggestion) - Len(cleaned))
             cased == IF cleaned = <<>> THEN cleaned
                      ELSE IF ~isStartOfSentence
                           THEN <<toLowerCase(Head(cleaned))>> \o Tail(cleaned)
                           ELSE <<toUpperCase(Head(cleaned))>> \o Tail(cleaned)
         IN leading \o cased

\* BaseProvider.getAutocompleteSuggestion after the chat request: what it
\* makes of the model's reply
getAutocompleteSuggestion(contextBefore, reply) ==
    LET trimmed == trim(reply)
        suggestion == IF LastChar(contextBefore) \in {" ", "\n"}
                      THEN trimStart(trimmed) ELSE trimmed
    IN removeDuplicatePrefix(contextBefore, suggestion)

\* the concatenations of a text of A and a text of B
Cat(A, B) == {a \o b : a \in A, b \in B}

\* a part of a pattern that may be missing
Opt(a) == {<<>>, a}

\* Here'?s? (is )?(the )? in lower case
HereIsThe ==
    Cat(Cat(Cat({<<"h", "e", "r", "e">>}, Opt(<<"'">>)), Cat(Opt(<<"s">>), {<<" ">>})),
        Cat(Opt(<<"i", "s", " ">>), Opt(<<"t", "h", "e", " ">>)))

\* (text|version|grammar)[:.]? and (text|version|writing)[:.]?
CorrectedNouns ==
    Cat({<<"t", "e", "x", "t">>, <<"v", "e", "r", "s", "i", "o", "n">>,
         <<"g", "r", "a", "m", "m", "a", "r">>}, {<<>>, <<":">>, <<".">>})
ImprovedNouns ==
    Cat({<<"t", "e", "x", "t">>, <<"v", "e", "r", "s", "i", "o", "n">>,
         <<"w", "r", "i", "t", "i", "n", "g">>}, {<<>>, <<":">>, <<".">>})

\* the four label patterns of cleanAIResponse without their last \s*, in
\* lower case, in the order of the replaces
LabelPatterns ==
    <<Cat(Cat(HereIsThe, Cat({<<"c", "o", "r", "r", "e", "c", "t">>}, Opt(<<"e", "d">>))),
          Cat({<<" ">>}, CorrectedNouns)),
      Cat({<<"c", "o", "r", "r", "e", "c", "t", "e", "d", " ">>}, CorrectedNouns),
      Cat(Cat(HereIsThe, {<<"i", "m", "p", "r", "o", "v", "e", "d", " ">>}), ImprovedNouns),
      Cat({<<"i", "m", "p", "r", "o", "v", "e", "d", " ">>}, ImprovedNouns)>>

\* s.replace(/^(label\s*)/i, ''): the longest label s starts with, whatever
\* the case of its letters, is removed with the whitespace after it; the
\* capitals of the model's texts are among UpperLetters
replaceLabel(s, labels) ==
    LET found == {l \in labels : startsWith(toLowerCaseText(s), l)}
        label == CHOOSE l \in found : \A m \in found : Len(m) <= Len(l)
    IN IF found = {} THEN s
       ELSE trimStart(SubSeq(s, Len(label) + 1, Len(s)))

\* the length of the longest prefix of s made of word characters
RECURSIVE WordCharsLength(_)
WordCharsLength(s) ==
    IF s = <<>> \/ ~IsWordChar(Head(s)) THEN 0 ELSE 1 + WordCharsLength(Tail(s))

\* s.replace(/^```(?:\w*)?\s*\n?/i, ''): the opening fence, the word after
\* it and the whitespace after that are removed
replaceOpeningFence(s) ==
    IF ~startsWith(s, Fence) THEN s
    ELSE LET afterFence == SubSeq(s, 4, Len(s))
         IN trimStart(SubSeq(afterFence, WordCharsLength(afterFence) + 1, Len(afterFence)))

cleanAIResponse(response) ==
    LET unfenced == stripClosingFence(replaceOpeningFence(trim(response)))
        unlabelled == replaceLabel(replaceLabel(replaceLabel(replaceLabel(unfenced,
                          LabelPatterns[1]), LabelPatterns[2]), LabelPatterns[3]), LabelPatterns[4])
    IN trim(unlabelled)

\* isAtStartOfSentence
isAtStartOfSentence(textBefore) ==
    LET isStartOfLine == Len(textBefore) = 0
        isAfterSentenceEnd == trimEnd(textBefore) # <<>>
                                 /\ LastChar(trimEnd(textBefore)) \in {".", "!", "?"}
        isAfterNewline == EndsWithNewlineThenSpace(textBefore)
    IN isStartOfLine \/ isAfterSentenceEnd \/ isAfterNewline

----------------------------------------------------------------------------
(* The editor collaborator: line/column positions over the flat text *)

\* offset of the first character of the line that holds offset off
LineStart(text, off) ==
    LET brk == {i \in 1..Min(off, Len(text)) : text[i] = "\n"}
    IN IF brk = {} THEN 0 ELSE CHOOSE i \in brk : \A j \in brk : j <= i

\* offset just after the last character of the line that holds offset off
LineEnd(text, off) ==
    LET brk == {i \in (off + 1)..Len(text) : text[i] = "\n"}
    IN IF brk = {} THEN Len(text) ELSE (CHOOSE i \in brk : \A j \in brk : i <= j) - 1

\* editor.getCursor().ch and editor.getLine(cursor.line).length
CursorCh(text, off) == off - LineStart(text, off)
LineLength(text, off) == LineEnd(text, off) - LineStart(text, off)

\* editor.posToOffset({line, ch}) for the line that starts at lineStart;
\* a column past the end of the line is clamped to the end of the line
posToOffset(text, lineStart, ch) == Min(lineStart + ch, LineEnd(text, lineStart))

\* editor.replaceRange(insert, from, to) on flat offsets
replaceRange(text, insert, from, to) ==
    substring(text, 0, from) \o insert \o substring(text, to, Len(text))

\* where the editor leaves the cursor after replaceRange(insert, from, to)
MapCursor(cur, insertLen, from, to) ==
    IF cur <= from THEN cur
    ELSE IF cur >= to THEN cur - (to - from) + insertLen
    ELSE from + insertLen

----------------------------------------------------------------------------
(* Inputs *)

HelloWorld == <<"H", "e", "l", "l", "o", " ", "w", "o", "r", "l", "d", " ">>

\* the notes the editor may hold when the plugin is loaded
InitDocs == {<<>>, HelloWorld}

\* a note of n characters in words of five letters, the first one capitalised
LongNote(n) ==
    [i \in 1..n |-> IF i = 1 THEN "H" ELSE IF i % 6 = 0 THEN " " ELSE "e"]

\* notes about as long as the window getSuggestion reads, ending in a word or
\* in a space
LongDocs ==
    {LongNote(n) \o end :
        n \in (ContextWindow - 2)..(ContextWindow + 1), end \in {<<>>, <<" ">>}}

\* notes whose end is inside a sentence, and at the start of one
SentenceDocs ==
    {HelloWorld, SubSeq(HelloWorld, 1, Len(HelloWorld) - 1) \o <<".", " ">>}

\* replies of the model to the chat request of the autocomplete: with and
\* without words of the context repeated, whitespace around them, capitals
Replies ==
    {<<>>, <<" ">>,
     <<"\n", "T", "o", " ">>,
     <<"t", "o">>,
     <<"w", "o", "r", "l", "d", " ", "T", "o">>,
     <<"W", "o", "r", "l", "d", ".", " ", "t", "o", "\n">>,
     <<"w", "o", "r", "l", "d">>,
     <<"w", "o", "r", "l", "d", "l", "y", " ", "T", "o">>,
     <<" ", "T", "o", " ", " ", "t", "o">>}

\* notes for the on-demand operations: with whitespace at the end, with a
\* sentence end, in a code fence, and beginning like the label of an answer
OnDemandDocs ==
    {HelloWorld,
     <<"T", "o", ".", " ", "t", "o">>,
     Fence \o <<"t", "o", "\n">> \o Fence,
     <<"c", "o", "r", "r", "e", "c", "t", "e", "d", " ", "t", "e", "x", "t", ":", " ", "t", "o">>}

\* what provider.callAPI resolves to
ApiResults == {<<>>, <<"T", "o">>, <<"t", "o", ".">>}

\* selections of a text, from and to as offsets: from its start or from its
\* second word, to the end of its first word or to its end
Selections(text) ==
    {[from |-> from, to |-> to] : from \in {0, 4}, to \in {3, Len(text)}}

\* API keys and model names a provider is configured or tested with; the
\* empty model name stands for the provider's default model
ApiKeys == {"key", "other key"}
Models == {"", "model", "other model"}

\* keys the user presses; a one-character key is a visible character
Keys == {"ArrowRight", "ArrowLeft", "Escape", "Backspace", " "}
IsVisibleChar(key) == key \in {" "}

\* a key press: the key, and whether Ctrl, Meta or Alt is held with it
KeyPresses ==
    {[key |-> key, modifier |-> FALSE] : key \in Keys}
        \cup {[key |-> "ArrowRight", modifier |-> TRUE]}

\* what provider.getAutocompleteSuggestion resolves to
ProviderTexts == {<<>>, <<"\n", "T", "o", " ">>}

\* the same with a completion that runs over two lines
CompletionTexts == ProviderTexts \cup {<<"t", "o", "\n", "b", "e">>}

\* the markers an error message of the provider contains (message.includes)
ProviderErrors == {{"429"}, {"rate limit"}, {"401"}, {"404"}, {"fetch"}, {}}

\* those of them that differ in a marker callAI's catch looks for, or in the
\* words "rate limit"
AutocompleteErrors == {{"429"}, {"rate limit"}, {}}

\* the words of the texts given to removeDuplicatePrefix
WordSet == {<<"t">>, <<"T">>, <<"t", "O">>}

\* the sequences of at most n words
WordSeqs(n) == UNION {[1..k -> WordSet] : k \in 0..n}

\* words.join(sep)
RECURSIVE joinWith(_, _)
joinWith(words, sep) ==
    IF words = <<>> THEN <<>>
    ELSE IF Len(words) = 1 THEN words[1]
    ELSE words[1] \o sep \o joinWith(Tail(words), sep)

\* the texts of at most n words, with or without whitespace around them and
\* with one or two whitespace characters between them
TextsOf(n) ==
    {lead \o joinWith(words, sep) \o trail :
        words \in WordSeqs(n),
        lead \in {<<>>, <<" ">>},
        sep \in {<<" ">>, <<" ", "\n">>},
        trail \in {<<>>, <<" ">>}}

\* the texts before the cursor given to shouldTriggerAutocomplete and
\* isAtSentenceStart: nothing or some words, then one character of each class
\* the functions tell apart, then nothing or whitespace; and whitespace alone
EndChars ==
    {".", "!", "?", ",", ";", ":", "t", "T", "0", "'", "\"", ")", "]",
     "(", "[", "-", "*"}
TrailingSpaces == {<<>>, <<" ">>, <<"\n">>, <<" ", "\t">>, <<"\n", " ">>}
ContextsBefore ==
    {body \o <<end>> \o trailing :
        body \in {<<>>, <<"t">>, <<"T", "o", " ">>, <<"t", "\n", "o">>},
        end \in EndChars,
        trailing \in TrailingSpaces}
      \cup TrailingSpaces

\* the selected texts and the corrections given to preserveCapitalization
OriginalTexts ==
    {lead \o first \o rest :
        lead \in {<<>>, <<" ">>},
        first \in {<<>>, <<"t">>, <<"T">>, <<"0">>, <<".">>},
        rest \in {<<>>, <<"o">>}}
CorrectedTexts ==
    {<<>>, <<"T">>, <<"t">>, <<"T", "O">>, <<"t", "O">>, <<" ", "T">>,
     <<"0", "T">>, <<".", "T">>, <<"O", "t", " ", "T">>}

\* the replies given to parseJsonArray: a JSON text or something else, alone
\* or after and before other text, inside a code fence or not
JsonBodies ==
    {<<>>,
     <<"[", "]">>,
     <<"[", "1", "]">>,
     <<"[", "1", ",", "1", "]">>,
     <<"[", "1", ",", " ", "1", "]">>,
     <<"[", "1", ",", "]">>,
     <<"[">>,
     <<"1">>,
     <<"{", "}">>,
     <<"[", "{", "}", "]">>,
     <<"[", "[", "1", "]", ",", "1", "1", "]">>,
     <<"[", "1", "]", "x", "[", "1", "]">>,
     <<"{", "}", " ", "[", "1", "]">>,
     <<"[", " ", "]">>,
     <<"x">>,
     <<"[", "1", " ", "1", "]">>}
ProviderContents ==
    {lead \o open \o before \o body \o after \o close \o lead :
        lead \in {<<>>, <<" ">>},
        open \in {<<>>, Fence \o <<"j", "s", "o", "n", "\n">>, Fence \o <<"\n">>, Fence},
        before \in {<<>>, <<"x", " ">>},
        body \in JsonBodies,
        after \in {<<>>, <<" ", "x">>, <<"]">>},
        close \in {<<>>, <<"\n">> \o Fence, Fence \o <<Backquote>>}}

\* what loadData resolves to: null, or an object saved by this or by an
\* earlier version of the plugin, with some of its properties
SavedProperties ==
    [apiKey : {"", "test-old-key"},
     apiKeys : {[zai |-> "zai-key", openai |-> "openai-key", straico |-> "straico-key"],
                [zai |-> "zai-key", openai |-> "", straico |-> ""]},
     provider : {"zai", "openai"},
     realTimeEnabled : {FALSE}]

LoadedData ==
    {null} \cup {[k \in names |-> saved[k]] :
                    saved \in SavedProperties,
                    names \in SUBSET {"apiKey", "apiKeys", "provider", "realTimeEnabled"}}

\* the selections given to extractWhitespace: nothing or words, with or
\* without whitespace before and after
SelectedTexts ==
    {lead \o core \o trail :
        lead \in TrailingSpaces,
        core \in {<<>>, <<"t">>, <<"t", " ", "o">>, <<"T", "\n", " ", "o">>},
        trail \in TrailingSpaces}

\* what provider.getGrammarSuggestions resolves to
Fix2 == [start |-> 6, end |-> 11, original |-> <<"w", "o", "r", "l", "d">>,
         suggestion |-> <<"w", "o", "r", "d">>]
GrammarResults == {{}, {Fix2}}


\* notes and suggestions for applySuggestion: the replacement shorter than
\* the original, beginning with it, and the original empty or repeated in
\* the note
AppliedTexts == {HelloWorld, <<"t", "o", " ", "t", "o", " ", "a", "t">>}
AppliedSuggestions ==
    [start : {0, 6}, end : {0, 3, 11},
     original : {<<>>, <<"t", "o", " ">>, <<"w", "o", "r", "l", "d">>},
     suggestion : {<<>>, <<"t", "o", " ", "a">>, <<"w", "o", "r", "d">>,
                   <<"w", "o", "r", "l", "d", "s">>}]

\* a reply whose offsets are the wrong way round: the array is handed on as
\* parsed, whatever its elements hold
Reversed == [start |-> 11, end |-> 6, original |-> <<>>,
             suggestion |-> <<"w", "o", "r", "d">>]
ParsedSuggestions == GrammarResults \cup {{Reversed}, {Fix2, Reversed}}

----------------------------------------------------------------------------
(* Timeouts: the pending timeouts of one callback, oldest first, each the  *)
(* number of ticks left.  The handle a field keeps is the one of the       *)
(* timeout armed last.                                                     *)

setTimeout(pending, delay) == Append(pending, delay)

\* clearTimeout(handle): cancels the timeout armed last, if still pending
clearTimeout(pending) ==
    IF pending = <<>> THEN pending ELSE SubSeq(pending, 1, Len(pending) - 1)

IsDue(pending) == pending # <<>> /\ Head(pending) = 0

Elapse(pending) == [i \in 1..Len(pending) |-> pending[i] - 1]

----------------------------------------------------------------------------
(* AIGrammarAssistant *)

getCurrentApiKey == settings.apiKey

\* the callback of the cooldown timeout without the reset of the flag
rateLimitTimerCallback_KeepsFlag(p) ==
    [p EXCEPT !.rateLimitTimers = Tail(@)]

\* the callback of the timeout handleRateLimit arms
rateLimitTimerCallback(p) ==
    [p EXCEPT !.rateLimitTimers = Tail(@), !.isRateLimited = FALSE]

\* handleRateLimit without the timeout that ends the cooldown
handleRateLimit_NoCooldown(p) ==
    [p EXCEPT !.isRateLimited = TRUE, !.rateLimitTimers = clearTimeout(@)]

\* handleRateLimit without the clearTimeout of the earlier cooldown
handleRateLimit_NoCancel(p) ==
    [p EXCEPT !.isRateLimited = TRUE,
              !.rateLimitTimers = setTimeout(@, RateLimitBackoffTicks)]

handleRateLimit(p) ==
    [p EXCEPT !.isRateLimited = TRUE,
              !.rateLimitTimers = setTimeout(clearTimeout(@), RateLimitBackoffTicks)]

----------------------------------------------------------------------------
(* AutocompleteService *)

clearAutocomplete(a) ==
    [a EXCEPT !.hintElement = FALSE, !.currentSuggestion = <<>>]

cancelScheduled(a) == [a EXCEPT !.timers = clearTimeout(@)]

\* AutocompleteService.destroy
destroyAutocomplete(a) == clearAutocomplete(cancelScheduled(a))

\* scheduleCheck without the clearTimeout of the pending timer
scheduleCheck_NoCancel(r) ==
    [r EXCEPT !.timers = setTimeout(@, GrammarDebounceTicks)]

\* scheduleAutocomplete without the clearTimeout of the pending timer
scheduleAutocomplete_NoCancel(a) ==
    IF a.isAccepting THEN a
    ELSE [clearAutocomplete(a) EXCEPT !.timers = setTimeout(@, AutocompleteDebounceTicks)]

\* scheduleAutocomplete without the isAccepting guard
scheduleAutocomplete_NoGuard(a) ==
    LET cleared == clearAutocomplete([a EXCEPT !.timers = clearTimeout(@)])
    IN [cleared EXCEPT !.timers = setTimeout(@, AutocompleteDebounceTicks)]

\* scheduleAutocomplete without the clearAutocomplete call
scheduleAutocomplete_NoClear(a) ==
    IF a.isAccepting THEN a
    ELSE [a EXCEPT !.timers = setTimeout(clearTimeout(@), AutocompleteDebounceTicks)]

scheduleAutocomplete(a) ==
    IF a.isAccepting THEN a
    ELSE LET cleared == clearAutocomplete([a EXCEPT !.timers = clearTimeout(@)])
         IN [cleared EXCEPT !.timers = setTimeout(@, AutocompleteDebounceTicks)]

\* lastCursorPosition is written here and read nowhere: it is not part of the state
updateCursorPosition(a, position) == a

\* getSuggestion with the whole text before the cursor as its context
getSuggestion_WholeText(calls) ==
    IF plugin.isRateLimited \/ getCurrentApiKey = "" THEN calls
    ELSE LET cursorOffset == cursor
             contextBefore == substring(doc, 0, cursorOffset)
         IN IF ~shouldTriggerAutocomplete(contextBefore, MinContextLength) THEN calls
            ELSE Append(calls, [cursorOffset |-> cursorOffset,
                                contextBefore |-> contextBefore,
                                fullText |-> doc])

\* getSuggestion without the rate-limit and API-key gate
getSuggestion_NoGate(calls) ==
    LET cursorOffset == cursor
        contextStart == Max(0, cursorOffset - ContextWindow)
        contextBefore == substring(doc, contextStart, cursorOffset)
    IN IF ~shouldTriggerAutocomplete(contextBefore, MinContextLength) THEN calls
       ELSE Append(calls, [cursorOffset |-> cursorOffset,
                           contextBefore |-> contextBefore,
                           fullText |-> doc])

\* getSuggestion up to the await of the provider call: the calls in flight
\* after it has run for the editor's current text and cursor
getSuggestion(calls) ==
    IF plugin.isRateLimited \/ getCurrentApiKey = "" THEN calls
    ELSE LET cursorOffset == cursor
             contextStart == Max(0, cursorOffset - ContextWindow)
             contextBefore == substring(doc, contextStart, cursorOffset)
         IN IF ~shouldTriggerAutocomplete(contextBefore, MinContextLength) THEN calls
            ELSE Append(calls, [cursorOffset |-> cursorOffset,
                                contextBefore |-> contextBefore,
                                fullText |-> doc])

display(a, suggestion, cursorPos) ==
    LET cleanSuggestion == trim(stripLeadingNewlines(suggestion))
    IN [clearAutocomplete(a) EXCEPT
            !.currentSuggestion = <<[text |-> cleanSuggestion, startPos |-> cursorPos]>>,
            !.hintElement = TRUE]

\* getSuggestion after the await: the provider call resolved with suggestion
getSuggestionResolved(a, call, suggestion) ==
    IF trim(suggestion) # <<>>
    THEN LET isStartOfSentence == isAtSentenceStart(call.contextBefore)
             adjustedSuggestion == adjustSuggestionCasing(suggestion, isStartOfSentence)
         IN display(a, adjustedSuggestion, call.cursorOffset)
    ELSE a

\* callAI's catch without the call of handleRateLimit
callAIRejected_NoTrip(p, message) == p

\* callAI's catch: the provider call rejected with an error whose message
\* contains the markers in message
callAIRejected(p, message) ==
    IF "429" \in message THEN handleRateLimit(p) ELSE p

\* the Notices triggerManually shows before it returns or runs getSuggestion
triggerManuallyNotices ==
    IF ~settings.autocompleteEnabled
    THEN {"Autocomplete is disabled. Enable it in settings."}
    ELSE {"Getting suggestion..."}

\* handleKeyDown without the Escape branch
handleKeyDown_NoEscape(a, key, modifier, editor, text, cur) ==
    IF a.currentSuggestion = <<>> THEN "none"
    ELSE IF key = "ArrowRight" /\ ~modifier
         THEN IF editor /\ CursorCh(text, cur) >= LineLength(text, cur)
              THEN "accept" ELSE "none"
    ELSE IF IsVisibleChar(key) /\ ~modifier THEN "clear"
    ELSE "none"

\* handleKeyDown without the end-of-line test
handleKeyDown_NoEolCheck(a, key, modifier, editor, text, cur) ==
    IF a.currentSuggestion = <<>> THEN "none"
    ELSE IF key = "ArrowRight" /\ ~modifier
         THEN IF editor THEN "accept" ELSE "none"
    ELSE IF key = "Escape" THEN "clear"
    ELSE IF IsVisibleChar(key) /\ ~modifier THEN "clear"
    ELSE "none"

\* what handleKeyDown decides for a key
handleKeyDown(a, key, modifier, editor, text, cur) ==
    IF a.currentSuggestion = <<>> THEN "none"
    ELSE IF key = "ArrowRight" /\ ~modifier
         THEN IF editor /\ CursorCh(text, cur) >= LineLength(text, cur)
              THEN "accept" ELSE "none"
    ELSE IF key = "Escape" THEN "clear"
    ELSE IF IsVisibleChar(key) /\ ~modifier THEN "clear"
    ELSE "none"

\* the text accept inserts at the cursor
TextToInsert(a) == trimStart(stripLeadingNewlines(a.currentSuggestion[1].text))

\* accept's effect on the service, after the insertion
accept(a) ==
    [clearAutocomplete(a) EXCEPT
        !.isAccepting = TRUE,
        !.acceptTimers = setTimeout(@, AcceptGuardTicks)]

----------------------------------------------------------------------------
(* RealTimeGrammarChecker *)

clearSuggestionMarkers(r) ==
    [r EXCEPT !.suggestionMarkers = {}, !.currentSuggestions = {}]

cancelPendingCheck(r) == [r EXCEPT !.timers = clearTimeout(@)]

\* RealTimeGrammarChecker.destroy
destroyChecker(r) == clearSuggestionMarkers(cancelPendingCheck(r))

scheduleCheck(r) ==
    [r EXCEPT !.timers = setTimeout(clearTimeout(@), GrammarDebounceTicks)]

displaySuggestions(r, suggestions) ==
    [clearSuggestionMarkers(r) EXCEPT
        !.currentSuggestions = suggestions,
        !.suggestionMarkers = suggestions]

\* getGrammarSuggestions' catch: the message checkGrammar's catch sees
getGrammarSuggestionsRejected(message) ==
    IF "429" \in message \/ "rate limit" \in message THEN {} ELSE message

\* checkGrammar's catch with a new check scheduled after the failure
checkGrammarRejected_Retry(r) == scheduleCheck(clearSuggestionMarkers(r))

\* checkGrammar's catch
checkGrammarRejected(r) == clearSuggestionMarkers(r)

\* checkGrammar's catch with handleRateLimit called for every failure
checkGrammarRateLimit_AnyFailure(p, message) == handleRateLimit(p)

\* checkGrammar's catch: what it does to the rate-limit guard
checkGrammarRateLimit(p, message) ==
    IF "fetch" \in message THEN p
    ELSE IF "401" \in message \/ "403" \in message THEN p
    ELSE IF "404" \in message THEN p
    ELSE IF "429" \in message \/ "rate limit" \in message THEN handleRateLimit(p)
    ELSE p

\* the Notices checkGrammar's catch shows for the message it sees; the one of
\* the rate-limit branch is shown by handleRateLimit
checkGrammarNotices(message) ==
    IF "fetch" \in message THEN {"Network error"}
    ELSE IF "401" \in message \/ "403" \in message THEN {"Authentication error"}
    ELSE IF "404" \in message THEN {"API endpoint not found"}
    ELSE IF "429" \in message \/ "rate limit" \in message THEN {"Rate limit reached"}
    ELSE {"Grammar check failed"}

\* applySuggestion without the comparison with suggestion.original
applySuggestion_Blind(text, suggestion) ==
    replaceRange(text, suggestion.suggestion,
                 Min(suggestion.start, Len(text)), Min(suggestion.end, Len(text)))

\* applySuggestion: the text of the note after it
applySuggestion(text, suggestion) ==
    LET originalText == substring(text, suggestion.start, suggestion.end)
    IN IF originalText = suggestion.original
       THEN replaceRange(text, suggestion.suggestion,
                         Min(suggestion.start, Len(text)), Min(suggestion.end, Len(text)))
       ELSE text

----------------------------------------------------------------------------
(* Initial state: the plugin after onload *)

NoHistory == [since |-> 0, burst |-> 0, fires |-> 0, superseded |-> FALSE]

\* a schedule call armed a timeout: it opens a burst, or extends the pending
\* one; displayed tells whether a suggestion was on display when it ran
Armed(h, displayed) ==
    [since |-> 0,
     burst |-> IF h.fires > 0 THEN 1 ELSE Min(h.burst + 1, 2),
     fires |-> 0,
     superseded |-> displayed]

\* the channel's timer callback ran
Fired(h) == [h EXCEPT !.fires = Min(@ + 1, 2)]

\* one tick passed with own the channel's pending timeouts and all those of
\* both channels; the history of a burst is kept until no timeout is pending
Ticked(h, own, all) ==
    IF all = <<>> THEN NoHistory
    ELSE IF own = <<>> THEN h
    ELSE [h EXCEPT !.since = @ + 1]

NoTrip == [since |-> 0, retripped |-> FALSE]

\* handleRateLimit ran
Tripped(h, limited) ==
    [since |-> 0, retripped |-> h.retripped \/ (limited /\ h.since > 0)]

\* no function of textUtils.ts is under examination
NoCall == [returned |-> FALSE]

\* the plugin after onload, whatever note the editor holds
ServicesLoaded(keys, autocompleteEnabled, realTimeEnabled, allowance) ==
    /\ settings \in [apiKey : keys,
                     autocompleteEnabled : {autocompleteEnabled},
                     realTimeEnabled : {realTimeEnabled}]
    /\ plugin = [activeEditor |-> FALSE, isRateLimited |-> FALSE, rateLimitTimers |-> <<>>]
    /\ ac = [timers |-> <<>>, currentSuggestion |-> <<>>, hintElement |-> FALSE,
             isAccepting |-> FALSE, acceptTimers |-> <<>>]
    /\ rt = [timers |-> <<>>, currentSuggestions |-> {}, suggestionMarkers |-> {},
             popups |-> {}]
    /\ acCalls = <<>>
    /\ gCalls = <<>>
    /\ hist = [ac |-> NoHistory, g |-> NoHistory, rl |-> NoTrip]
    /\ budget = allowance

PluginLoaded(keys, autocompleteEnabled, realTimeEnabled, allowance) ==
    /\ doc \in InitDocs
    /\ cursor = Len(doc)
    /\ ServicesLoaded(keys, autocompleteEnabled, realTimeEnabled, allowance)

InitWith(keys, autocompleteEnabled, realTimeEnabled, allowance) ==
    /\ PluginLoaded(keys, autocompleteEnabled, realTimeEnabled, allowance)
    /\ util = NoCall

\* DEFAULT_SETTINGS switches both features on
Init ==
    InitWith({"", "key"}, TRUE, TRUE,
             [edits |-> MaxEdits, moves |-> MaxMoves, triggers |-> MaxTriggers])

----------------------------------------------------------------------------
(* The editor-change event: the three handlers index.ts registers, run one *)
(* after the other for the text newText and the cursor newCursor           *)

ArmsAutocomplete(a) ==
    settings.autocompleteEnabled /\ plugin.activeEditor /\ ~a.isAccepting

ArmsCheck == settings.realTimeEnabled /\ plugin.activeEditor

\* the services after the handlers have run
OnEditorChange(a, r, newCursor) ==
    LET r1 == IF settings.realTimeEnabled /\ plugin.activeEditor THEN scheduleCheck(r) ELSE r
        a1 == IF settings.autocompleteEnabled /\ plugin.activeEditor
              THEN scheduleAutocomplete(a) ELSE a
        a2 == IF plugin.activeEditor THEN updateCursorPosition(a1, newCursor) ELSE a1
    IN [ac |-> a2, rt |-> r1,
        hist |-> [hist EXCEPT
                    !.ac = IF ArmsAutocomplete(a)
                           THEN Armed(@, a.currentSuggestion # <<>>) ELSE @,
                    !.g = IF ArmsCheck THEN Armed(@, FALSE) ELSE @]]

EditorChange(a, r, newText, newCursor) ==
    LET after == OnEditorChange(a, r, newCursor)
    IN /\ doc' = newText
       /\ cursor' = newCursor
       /\ rt' = after.rt
       /\ ac' = after.ac
       /\ hist' = after.hist

\* the accept of the displayed suggestion: insertion at the cursor, the
\* editor-change it causes, the cursor set after the inserted text
Accept ==
    LET textToInsert == TextToInsert(ac)
        newText == replaceRange(doc, textToInsert, cursor, cursor)
        after == OnEditorChange([ac EXCEPT !.isAccepting = TRUE], rt, cursor)
    IN /\ doc' = newText
       /\ cursor' = posToOffset(newText, LineStart(doc, cursor),
                                CursorCh(doc, cursor) + Len(textToInsert))
       /\ rt' = after.rt
       /\ ac' = accept(after.ac)
       /\ hist' = after.hist

----------------------------------------------------------------------------
(* User events *)

IsEdit(key, modifier) == ~modifier /\ (IsVisibleChar(key) \/ key = "Backspace")

\* a keydown: the plugin's handler, then the editor's own handling of the key
keydown(key, modifier) ==
    LET decision == handleKeyDown(ac, key, modifier, plugin.activeEditor, doc, cursor)
        a0 == IF decision = "clear" THEN clearAutocomplete(ac) ELSE ac
    IN /\ IsEdit(key, modifier) => budget.edits > 0
       /\ key = "Backspace" /\ ~modifier => cursor > 0
       /\ key = "ArrowLeft" => budget.moves > 0
       /\ IF decision = "accept"
          THEN Accept /\ UNCHANGED budget
          ELSE IF IsVisibleChar(key) /\ ~modifier
          THEN /\ EditorChange(a0, rt, replaceRange(doc, <<key>>, cursor, cursor), cursor + 1)
               /\ budget' = [budget EXCEPT !.edits = @ - 1]
          ELSE IF key = "Backspace" /\ ~modifier
          THEN /\ EditorChange(a0, rt, replaceRange(doc, <<>>, cursor - 1, cursor), cursor - 1)
               /\ budget' = [budget EXCEPT !.edits = @ - 1]
          ELSE /\ cursor' = CASE key = "ArrowRight" /\ ~modifier -> Min(cursor + 1, Len(doc))
                              [] key = "ArrowRight" /\ modifier -> LineEnd(doc, cursor)
                              [] key = "ArrowLeft" /\ ~modifier -> Max(cursor - 1, 0)
                              [] key = "ArrowLeft" /\ modifier -> LineStart(doc, cursor)
                              [] OTHER -> cursor
               /\ ac' = a0
               /\ budget' = [budget EXCEPT !.moves = IF key = "ArrowLeft" THEN @ - 1 ELSE @]
               /\ UNCHANGED <<doc, rt, hist>>
       /\ UNCHANGED <<settings, plugin, acCalls, gCalls>>

KeyDown(key, modifier) ==
    /\ keydown(key, modifier)
    /\ UNCHANGED util

\* the same keydown, with the call of handleKeyDown kept: the event, whether
\* a suggestion was displayed, and what the handler decided; count tells one
\* call from the next
KeyDownRecorded(key, modifier) ==
    /\ keydown(key, modifier)
    /\ util' = [key |-> key,
                modifier |-> modifier,
                displayed |-> ac.currentSuggestion # <<>>,
                returned |-> TRUE,
                result |-> handleKeyDown(ac, key, modifier, plugin.activeEditor, doc, cursor),
                count |-> IF util.returned THEN 1 - util.count ELSE 0]

\* workspace 'active-leaf-change'
ActiveLeafChange(isMarkdownView) ==
    /\ plugin' = [plugin EXCEPT !.activeEditor = isMarkdownView]
    /\ rt' = clearSuggestionMarkers(rt)
    /\ UNCHANGED <<doc, cursor, settings, ac, acCalls, gCalls, hist, budget, util>>

\* command 'trigger-autocomplete'
TriggerManually ==
    /\ budget.triggers > 0
    /\ budget' = [budget EXCEPT !.triggers = @ - 1]
    /\ acCalls' = IF ~settings.autocompleteEnabled THEN acCalls ELSE getSuggestion(acCalls)
    /\ UNCHANGED <<doc, cursor, settings, plugin, ac, rt, gCalls, hist, util>>

\* the plugin is loaded as long as onunload has not run
Loaded == ~util.returned

\* onunload: both services destroyed, the cooldown timeout cleared; the
\* calls in flight and the accept-guard timeout stay as they are
Unload ==
    /\ Loaded
    /\ rt' = destroyChecker(rt)
    /\ ac' = destroyAutocomplete(ac)
    /\ plugin' = [plugin EXCEPT !.rateLimitTimers = clearTimeout(@)]
    /\ util' = [returned |-> TRUE]
    /\ UNCHANGED <<doc, cursor, settings, acCalls, gCalls, hist, budget>>

\* Two notes are open, each in an editor of its own. doc and cursor are
\* those of the active editor, util.doc and util.cursor those of the other
\* one; util.editor names the active editor and util.origin the editor
\* whose text the displayed suggestion was computed from (0: none).

\* workspace 'active-leaf-change' to the other note's view, at a moment when
\* no timeout is pending and no provider call is in flight: activeEditor
\* is the other editor, the markers are cleared, the autocomplete service
\* is not told
SwitchEditor ==
    /\ ac.timers = <<>> /\ rt.timers = <<>>
    /\ acCalls = <<>> /\ gCalls = <<>>
    /\ plugin.activeEditor
    /\ budget.moves > 0
    /\ budget' = [budget EXCEPT !.moves = @ - 1]
    /\ rt' = clearSuggestionMarkers(rt)
    /\ doc' = util.doc
    /\ cursor' = util.cursor
    /\ util' = [util EXCEPT !.doc = doc, !.cursor = cursor, !.editor = 3 - @]
    /\ UNCHANGED <<settings, plugin, ac, acCalls, gCalls, hist>>

\* a keydown in the active editor
KeyDownInEditor(key, modifier) ==
    /\ keydown(key, modifier)
    /\ util' = [util EXCEPT !.origin = IF ac'.currentSuggestion = <<>> THEN 0 ELSE @]

\* the toggle 'Enable Autocomplete' of the settings tab
ToggleAutocomplete ==
    /\ settings' = [settings EXCEPT !.autocompleteEnabled = ~@]
    /\ UNCHANGED <<doc, cursor, plugin, ac, rt, acCalls, gCalls, hist, budget, util>>

\* command 'accept-autocomplete'
AcceptCommand ==
    /\ ac.currentSuggestion # <<>>
    /\ handleKeyDown(ac, "ArrowRight", FALSE, TRUE, doc, cursor) = "accept"
    /\ Accept
    /\ UNCHANGED <<settings, plugin, acCalls, gCalls, budget, util>>

----------------------------------------------------------------------------
(* Timer callbacks and provider continuations of the autocomplete channel *)

RemoveAt(seq, i) == SubSeq(seq, 1, i - 1) \o SubSeq(seq, i + 1, Len(seq))

AutocompleteTimerFires ==
    /\ IsDue(ac.timers)
    /\ ac' = [ac EXCEPT !.timers = Tail(@)]
    /\ acCalls' = getSuggestion(acCalls)
    /\ hist' = [hist EXCEPT !.ac = Fired(@)]
    /\ UNCHANGED <<doc, cursor, settings, plugin, rt, gCalls, budget, util>>

\* getSuggestion's continuation after callAI resolved
autocompleteResolved(i, suggestion) ==
    /\ i \in 1..Len(acCalls)
    /\ acCalls' = RemoveAt(acCalls, i)
    /\ ac' = getSuggestionResolved(ac, acCalls[i], suggestion)
    /\ UNCHANGED <<doc, cursor, settings, plugin, rt, gCalls, hist, budget>>

AutocompleteResolves(i, suggestion) ==
    /\ autocompleteResolved(i, suggestion)
    /\ UNCHANGED util

\* getSuggestion's continuation: the editor of the call is the active one,
\* no switch having happened since the timeout was armed
ResolvesInEditor(i, suggestion) ==
    /\ autocompleteResolved(i, suggestion)
    /\ util' = [util EXCEPT !.origin = IF ac'.currentSuggestion = <<>> THEN 0
                                       ELSE IF trim(suggestion) # <<>> THEN util.editor
                                       ELSE @]

\* the calls in flight that a later call has overtaken, once the call at i
\* has completed: the calls are in the order in which they were started, and
\* the first overtaken of them are older than a call that has completed
OvertakenAfter(overtaken, i) ==
    IF i <= overtaken THEN overtaken - 1 ELSE i - 1

\* the provider call at i resolves; kept are the call, whether a call
\* started after it had completed before, and how many calls in flight are
\* now older than a completed one
ResponseArrives(i, suggestion) ==
    /\ autocompleteResolved(i, suggestion)
    /\ LET overtaken == IF util.returned THEN util.overtaken ELSE 0
       IN util' = [call |-> acCalls[i],
                   suggestion |-> suggestion,
                   late |-> i <= overtaken,
                   overtaken |-> OvertakenAfter(overtaken, i),
                   returned |-> TRUE]

\* the model's reply arrives: the provider makes the suggestion of it and
\* getSuggestion goes on with it; the call and the reply are kept, and count
\* tells one reply from the next
ModelReplies(i, reply) ==
    /\ i \in 1..Len(acCalls)
    /\ autocompleteResolved(i, getAutocompleteSuggestion(acCalls[i].contextBefore, reply))
    /\ util' = [contextBefore |-> acCalls[i].contextBefore,
                reply |-> reply,
                returned |-> TRUE,
                count |-> IF util.returned THEN 1 - util.count ELSE 0]

AutocompleteRejects(i, message) ==
    /\ i \in 1..Len(acCalls)
    /\ acCalls' = RemoveAt(acCalls, i)
    /\ plugin' = callAIRejected(plugin, message)
    /\ hist' = IF "429" \in message
               THEN [hist EXCEPT !.rl = Tripped(@, plugin.isRateLimited)] ELSE hist
    /\ UNCHANGED <<doc, cursor, settings, ac, rt, gCalls, budget, util>>

AcceptGuardExpires ==
    /\ IsDue(ac.acceptTimers)
    /\ ac' = [ac EXCEPT !.acceptTimers = Tail(@), !.isAccepting = FALSE]
    /\ UNCHANGED <<doc, cursor, settings, plugin, rt, acCalls, gCalls, hist, budget, util>>

RateLimitCooldownEnds ==
    /\ IsDue(plugin.rateLimitTimers)
    /\ plugin' = rateLimitTimerCallback(plugin)
    /\ hist' = [hist EXCEPT !.rl = NoTrip]
    /\ UNCHANGED <<doc, cursor, settings, ac, rt, acCalls, gCalls, budget, util>>

----------------------------------------------------------------------------
(* Timer callback and provider continuations of the grammar channel *)

\* checkGrammar without the rate-limit gate
checkGrammar_NoRateGate(calls) ==
    IF trim(doc) = <<>> THEN calls
    ELSE IF getCurrentApiKey = "" THEN calls
    ELSE Append(calls, [text |-> doc])

\* checkGrammar up to the await of the provider call
checkGrammar(calls) ==
    IF trim(doc) = <<>> THEN calls
    ELSE IF getCurrentApiKey = "" THEN calls
    ELSE IF plugin.isRateLimited THEN calls
    ELSE Append(calls, [text |-> doc])

\* the markers checkGrammar clears before it returns early
checkGrammarGate(r) ==
    IF trim(doc) = <<>> THEN clearSuggestionMarkers(r)
    ELSE IF getCurrentApiKey = "" THEN clearSuggestionMarkers(r)
    ELSE r

GrammarTimerFires ==
    /\ IsDue(rt.timers)
    /\ rt' = checkGrammarGate([rt EXCEPT !.timers = Tail(@)])
    /\ gCalls' = checkGrammar(gCalls)
    /\ hist' = [hist EXCEPT !.g = Fired(@)]
    /\ UNCHANGED <<doc, cursor, settings, plugin, ac, acCalls, budget, util>>

GrammarResolves(i, suggestions) ==
    /\ i \in 1..Len(gCalls)
    /\ gCalls' = RemoveAt(gCalls, i)
    /\ rt' = displaySuggestions(rt, suggestions)
    /\ UNCHANGED <<doc, cursor, settings, plugin, ac, acCalls, hist, budget, util>>

GrammarRejects(i, message) ==
    /\ i \in 1..Len(gCalls)
    /\ gCalls' = RemoveAt(gCalls, i)
    /\ rt' = checkGrammarRejected(rt)
    /\ plugin' = checkGrammarRateLimit(plugin, getGrammarSuggestionsRejected(message))
    /\ hist' = IF plugin' # plugin
               THEN [hist EXCEPT !.rl = Tripped(@, plugin.isRateLimited)] ELSE hist
    /\ UNCHANGED <<doc, cursor, settings, ac, acCalls, budget, util>>

\* a click on a suggestion marker
ShowSuggestionPopup(suggestion) ==
    /\ suggestion \in rt.suggestionMarkers
    /\ rt' = [rt EXCEPT !.popups = @ \cup {suggestion}]
    /\ UNCHANGED <<doc, cursor, settings, plugin, ac, acCalls, gCalls, hist, budget, util>>

\* a click on the popup's Apply button
ApplyClicked(suggestion) ==
    LET newText == applySuggestion(doc, suggestion)
        from == Min(suggestion.start, Len(doc))
        to == Min(suggestion.end, Len(doc))
        closed == [rt EXCEPT !.popups = @ \ {suggestion}]
    IN /\ suggestion \in rt.popups
       /\ IF newText # doc
          THEN EditorChange(ac, closed, newText,
                            MapCursor(cursor, Len(suggestion.suggestion), from, to))
          ELSE /\ rt' = closed
               /\ UNCHANGED <<doc, cursor, ac, hist>>
       /\ UNCHANGED <<settings, plugin, acCalls, gCalls, budget, util>>

\* a click on the popup's Dismiss button
DismissClicked(suggestion) ==
    /\ suggestion \in rt.popups
    /\ rt' = [rt EXCEPT !.popups = @ \ {suggestion}]
    /\ UNCHANGED <<doc, cursor, settings, plugin, ac, acCalls, gCalls, hist, budget, util>>

----------------------------------------------------------------------------
(* GrammarService: the on-demand operations.  util is the operation: the   *)
(* note before it, what it gave to callAI, whether the provider call is    *)
(* in flight, and how the call ended.                                      *)

\* no operation is waiting for the provider
NoOperationPending == IF util.returned THEN ~util.pending ELSE TRUE

\* callAI up to the provider call: without a key it returns '' and calls
\* nothing; the rate-limit flag is not among its arguments
StartsCall == getCurrentApiKey # ""

\* an operation has called callAI(text, ...)
Operation(op, text, from, to) ==
    [op |-> op,
     before |-> doc,
     text |-> text,
     from |-> from,
     to |-> to,
     called |-> StartsCall,
     limited |-> plugin.isRateLimited,
     pending |-> StartsCall,
     failed |-> FALSE,
     returned |-> TRUE]

\* correctSelectedText and improveWriting after callAI has returned corrected:
\* the note after editor.replaceSelection
selectionReplaced(text, from, to, corrected) ==
    LET selectedText == substring(text, from, to)
        parts == extractWhitespace(selectedText)
        textBeforeSelection == substring(text, LineStart(text, from), from)
        isStartOfSentence == isAtStartOfSentence(textBeforeSelection)
        cleanedResult == preserveCapitalization(parts.content, cleanAIResponse(corrected),
                                                isStartOfSentence)
        finalResult == parts.leading \o cleanedResult \o parts.trailing
    IN IF corrected = <<>> THEN text
       ELSE replaceRange(text, finalResult, from, to)

\* cleanedResult.replace(/^```(?:markdown|md)?\s*\n?/i, '')
replaceMarkdownFence(s) ==
    IF ~startsWith(s, Fence) THEN s
    ELSE LET afterFence == SubSeq(s, 4, Len(s))
             tag == toLowerCaseText(afterFence)
             afterTag == IF startsWith(tag, <<"m", "a", "r", "k", "d", "o", "w", "n">>)
                         THEN SubSeq(afterFence, 9, Len(afterFence))
                         ELSE IF startsWith(tag, <<"m", "d">>)
                         THEN SubSeq(afterFence, 3, Len(afterFence))
                         ELSE afterFence
         IN trimStart(afterTag)

\* correctEntireDocument after callAI has returned corrected: the note after
\* editor.setValue, if it runs
documentReplaced(fullText, corrected) ==
    LET cleanedResult == stripClosingFence(replaceMarkdownFence(cleanAIResponse(corrected)))
    IN IF corrected = <<>> THEN fullText
       ELSE IF cleanedResult # fullText THEN cleanedResult
       ELSE fullText

\* the operation goes on after callAI has returned corrected
operationContinued(corrected) ==
    IF util.op = "correctEntireDocument"
    THEN documentReplaced(doc, corrected)
    ELSE selectionReplaced(doc, util.from, util.to, corrected)

\* commands 'correct-selected-text' and 'improve-writing' with the selection
\* from..to; without a selection a Notice is all
CorrectSelection(op, from, to) ==
    /\ NoOperationPending
    /\ budget.triggers > 0
    /\ budget' = [budget EXCEPT !.triggers = @ - 1]
    /\ from <= to
    /\ substring(doc, from, to) # <<>>
    /\ util' = Operation(op, extractWhitespace(substring(doc, from, to)).content, from, to)
    /\ UNCHANGED <<doc, cursor, settings, plugin, ac, rt, acCalls, gCalls, hist>>

\* command 'correct-document-grammar'; for an empty note a Notice is all
CorrectEntireDocument ==
    /\ NoOperationPending
    /\ budget.triggers > 0
    /\ budget' = [budget EXCEPT !.triggers = @ - 1]
    /\ trim(doc) # <<>>
    /\ util' = Operation("correctEntireDocument", doc, 0, Len(doc))
    /\ UNCHANGED <<doc, cursor, settings, plugin, ac, rt, acCalls, gCalls, hist>>

\* provider.callAPI resolves with result: callAI returns it
CallAPIResolves(result) ==
    /\ util.returned /\ util.pending
    /\ doc' = operationContinued(result)
    /\ cursor' = Min(cursor, Len(doc'))
    /\ util' = [util EXCEPT !.pending = FALSE]
    /\ UNCHANGED <<settings, plugin, ac, rt, acCalls, gCalls, hist, budget>>

\* callAI's catch: the rate limit is recorded for an error with 'rate limit'
\* or '429' in its message
grammarServiceRejected(p, message) ==
    IF "rate limit" \in message \/ "429" \in message THEN handleRateLimit(p) ELSE p

\* provider.callAPI rejects: callAI's catch returns the text it was given
CallAPIRejects(message) ==
    /\ util.returned /\ util.pending
    /\ plugin' = grammarServiceRejected(plugin, message)
    /\ hist' = IF plugin' # plugin
               THEN [hist EXCEPT !.rl = Tripped(@, plugin.isRateLimited)] ELSE hist
    /\ doc' = operationContinued(util.text)
    /\ cursor' = Min(cursor, Len(doc'))
    /\ util' = [util EXCEPT !.pending = FALSE, !.failed = TRUE]
    /\ UNCHANGED <<settings, ac, rt, acCalls, gCalls, budget>>

----------------------------------------------------------------------------
(* BaseProvider: its configuration and testConnection.  util is the         *)
(* provider: apiKey and model, the locals of a testConnection that awaits   *)
(* its fetch, the outcome of the last test, and the credentials the last    *)
(* chat request was sent with.                                              *)

getDefaultModel == "default model"

\* BaseProvider.getModel
getModel(provider) == IF provider.model = "" THEN getDefaultModel ELSE provider.model

\* testConnection up to the await of fetch
testConnectionStarted(provider, apiKey, model) ==
    [provider EXCEPT !.savedApiKey = provider.apiKey,
                     !.savedModel = provider.model,
                     !.apiKey = apiKey,
                     !.model = IF model = "" THEN getDefaultModel ELSE model,
                     !.testing = TRUE]

\* testConnection after fetch has resolved: the saved values are put back
\* before response.ok is looked at
testConnectionResolved(provider, ok) ==
    [provider EXCEPT !.apiKey = provider.savedApiKey,
                     !.model = provider.savedModel,
                     !.testing = FALSE,
                     !.outcome = IF ok THEN "success" ELSE "HTTP failure"]

\* testConnection's catch after fetch has thrown: return false
testConnectionThrown(provider) ==
    [provider EXCEPT !.testing = FALSE, !.outcome = "thrown"]

\* provider.testConnection(apiKey, model) is called
TestConnection(apiKey, model) ==
    /\ ~util.testing
    /\ util' = testConnectionStarted(util, apiKey, model)
    /\ UNCHANGED <<doc, cursor, settings, plugin, ac, rt, acCalls, gCalls, hist, budget>>

\* the fetch of testConnection resolves with a response
TestFetchResolves(ok) ==
    /\ util.testing
    /\ util' = testConnectionResolved(util, ok)
    /\ UNCHANGED <<doc, cursor, settings, plugin, ac, rt, acCalls, gCalls, hist, budget>>

\* the fetch of testConnection throws
TestFetchThrows ==
    /\ util.testing
    /\ util' = testConnectionThrown(util)
    /\ UNCHANGED <<doc, cursor, settings, plugin, ac, rt, acCalls, gCalls, hist, budget>>

\* makeChatRequest of another provider call builds its request
MakeChatRequest ==
    /\ util' = [util EXCEPT !.request = [apiKey |-> util.apiKey, model |-> getModel(util),
                                         duringTest |-> util.testing]]
    /\ UNCHANGED <<doc, cursor, settings, plugin, ac, rt, acCalls, gCalls, hist, budget>>

\* setConfiguration, while no test awaits its fetch
SetConfiguration(apiKey, model) ==
    /\ ~util.testing
    /\ util' = [util EXCEPT !.apiKey = apiKey, !.model = model]
    /\ UNCHANGED <<doc, cursor, settings, plugin, ac, rt, acCalls, gCalls, hist, budget>>

----------------------------------------------------------------------------
(* Time *)

NoTimeoutDue ==
    /\ ~IsDue(ac.timers)
    /\ ~IsDue(ac.acceptTimers)
    /\ ~IsDue(plugin.rateLimitTimers)
    /\ ~IsDue(rt.timers)

Tick ==
    /\ NoTimeoutDue
    /\ ac' = [ac EXCEPT !.timers = Elapse(@), !.acceptTimers = Elapse(@)]
    /\ plugin' = [plugin EXCEPT !.rateLimitTimers = Elapse(@)]
    /\ rt' = [rt EXCEPT !.timers = Elapse(@)]
    /\ hist' = [ac |-> Ticked(hist.ac, ac.timers, ac.timers \o rt.timers),
                g |-> Ticked(hist.g, rt.timers, ac.timers \o rt.timers),
                rl |-> IF plugin.isRateLimited
                       THEN [hist.rl EXCEPT !.since = Min(@ + 1, RateLimitBackoffTicks + 1)]
                       ELSE hist.rl]
    /\ UNCHANGED <<doc, cursor, settings, acCalls, gCalls, budget, util>>

----------------------------------------------------------------------------
(* Calls of the functions of textUtils.ts *)

\* BaseProvider.getAutocompleteSuggestion: removeDuplicatePrefix applied to the
\* context and the provider's completion
RemoveDuplicatePrefixReturns ==
    /\ ~util.returned
    /\ util' = [util EXCEPT !.returned = TRUE,
                            !.result = removeDuplicatePrefix(util.context, util.suggestion)]
    /\ UNCHANGED <<doc, cursor, settings, plugin, ac, rt, acCalls, gCalls, hist, budget>>

\* getSuggestion: shouldTriggerAutocomplete applied to the text before the cursor
ShouldTriggerAutocompleteReturns ==
    /\ ~util.returned
    /\ util' = [util EXCEPT
                  !.returned = TRUE,
                  !.result = shouldTriggerAutocomplete(util.contextBefore, util.minLength)]
    /\ UNCHANGED <<doc, cursor, settings, plugin, ac, rt, acCalls, gCalls, hist, budget>>

\* getSuggestion: isAtSentenceStart applied to the text before the cursor
IsAtSentenceStartReturns ==
    /\ ~util.returned
    /\ util' = [util EXCEPT !.returned = TRUE,
                            !.result = isAtSentenceStart(util.contextBefore)]
    /\ UNCHANGED <<doc, cursor, settings, plugin, ac, rt, acCalls, gCalls, hist, budget>>

\* BaseProvider.getGrammarSuggestions: parseJsonArray applied to the reply
ParseJsonArrayReturns ==
    /\ ~util.returned
    /\ util' = [util EXCEPT !.returned = TRUE, !.result = parseJsonArray(util.content)]
    /\ UNCHANGED <<doc, cursor, settings, plugin, ac, rt, acCalls, gCalls, hist, budget>>

\* loadSettings: migrateSettings applied to the loaded data
MigrateSettingsReturns ==
    /\ ~util.returned
    /\ util' = [util EXCEPT !.returned = TRUE,
                            !.loadedData = migrateLoadedData(util.loadedData),
                            !.result = migrateSettings(util.loadedData)]
    /\ UNCHANGED <<doc, cursor, settings, plugin, ac, rt, acCalls, gCalls, hist, budget>>

\* GrammarService: extractWhitespace applied to the selected text
ExtractWhitespaceReturns ==
    /\ ~util.returned
    /\ util' = [util EXCEPT !.returned = TRUE, !.result = extractWhitespace(util.text)]
    /\ UNCHANGED <<doc, cursor, settings, plugin, ac, rt, acCalls, gCalls, hist, budget>>

\* GrammarService: preserveCapitalization applied to the selected text and the
\* provider's correction
PreserveCapitalizationReturns ==
    /\ ~util.returned
    /\ util' = [util EXCEPT
                  !.returned = TRUE,
                  !.result = preserveCapitalization(util.originalText, util.correctedText,
                                                    util.isStartOfSentence)]
    /\ UNCHANGED <<doc, cursor, settings, plugin, ac, rt, acCalls, gCalls, hist, budget>>

----------------------------------------------------------------------------
Next ==
    \/ \E press \in KeyPresses : KeyDown(press.key, press.modifier)
    \/ \E isMarkdownView \in BOOLEAN : ActiveLeafChange(isMarkdownView)
    \/ TriggerManually
    \/ AcceptCommand
    \/ AutocompleteTimerFires
    \/ \E i \in 1..Len(acCalls), suggestion \in ProviderTexts : AutocompleteResolves(i, suggestion)
    \/ \E i \in 1..Len(acCalls), message \in AutocompleteErrors : AutocompleteRejects(i, message)
    \/ AcceptGuardExpires
    \/ RateLimitCooldownEnds
    \/ GrammarTimerFires
    \/ \E i \in 1..Len(gCalls), suggestions \in GrammarResults : GrammarResolves(i, suggestions)
    \/ \E i \in 1..Len(gCalls), message \in ProviderErrors : GrammarRejects(i, message)
    \/ \E suggestion \in rt.suggestionMarkers : ShowSuggestionPopup(suggestion)
    \/ \E suggestion \in rt.popups : ApplyClicked(suggestion)
    \/ \E suggestion \in rt.popups : DismissClicked(suggestion)
    \/ Tick

Spec == Init /\ [][Next]_vars

\* the debounce of both channels alone: no API key is set, the user only types
DebounceNext ==
    \/ \E press \in KeyPresses : KeyDown(press.key, press.modifier)
    \/ \E isMarkdownView \in BOOLEAN : ActiveLeafChange(isMarkdownView)
    \/ AutocompleteTimerFires
    \/ GrammarTimerFires
    \/ Tick

DebounceSpec ==
    /\ InitWith({""}, TRUE, TRUE, [edits |-> MaxBurst, moves |-> 0, triggers |-> 0])
    /\ [][DebounceNext]_vars

\* the autocomplete lifecycle alone: real-time checking is switched off
AutocompleteNext ==
    \/ \E press \in KeyPresses : KeyDown(press.key, press.modifier)
    \/ \E isMarkdownView \in BOOLEAN : ActiveLeafChange(isMarkdownView)
    \/ TriggerManually
    \/ AcceptCommand
    \/ AutocompleteTimerFires
    \/ \E i \in 1..Len(acCalls), suggestion \in ProviderTexts : AutocompleteResolves(i, suggestion)
    \/ \E i \in 1..Len(acCalls), message \in AutocompleteErrors : AutocompleteRejects(i, message)
    \/ AcceptGuardExpires
    \/ RateLimitCooldownEnds
    \/ Tick

AutocompleteSpec ==
    /\ InitWith({"", "key"}, TRUE, FALSE,
                [edits |-> MaxEdits, moves |-> MaxMoves, triggers |-> MaxTriggers])
    /\ [][AutocompleteNext]_vars

\* the real-time grammar lifecycle alone: autocomplete is switched off
GrammarNext ==
    \/ \E press \in KeyPresses : KeyDown(press.key, press.modifier)
    \/ \E isMarkdownView \in BOOLEAN : ActiveLeafChange(isMarkdownView)
    \/ GrammarTimerFires
    \/ \E i \in 1..Len(gCalls), suggestions \in GrammarResults : GrammarResolves(i, suggestions)
    \/ \E i \in 1..Len(gCalls), message \in ProviderErrors : GrammarRejects(i, message)
    \/ \E suggestion \in rt.suggestionMarkers : ShowSuggestionPopup(suggestion)
    \/ \E suggestion \in rt.popups : ApplyClicked(suggestion)
    \/ \E suggestion \in rt.popups : DismissClicked(suggestion)
    \/ Tick

GrammarSpec ==
    /\ InitWith({"", "key"}, FALSE, TRUE,
                [edits |-> MaxGrammarEdits, moves |-> MaxMoves, triggers |-> 0])
    /\ [][GrammarNext]_vars

\* the real-time check up to the display of its annotations, for every array
\* the provider's reply can parse to
AnnotationNext ==
    \/ \E press \in KeyPresses : KeyDown(press.key, press.modifier)
    \/ \E isMarkdownView \in BOOLEAN : ActiveLeafChange(isMarkdownView)
    \/ GrammarTimerFires
    \/ \E i \in 1..Len(gCalls), suggestions \in ParsedSuggestions : GrammarResolves(i, suggestions)
    \/ \E i \in 1..Len(gCalls), message \in ProviderErrors : GrammarRejects(i, message)
    \/ Tick

AnnotationSpec ==
    /\ InitWith({"", "key"}, FALSE, TRUE,
                [edits |-> MaxGrammarEdits, moves |-> MaxMoves, triggers |-> 0])
    /\ [][AnnotationNext]_vars

\* both channels driven by the debounce timers alone, with the provider
\* answering or failing at any later time
FetchNext ==
    \/ \E press \in KeyPresses : KeyDown(press.key, press.modifier)
    \/ \E isMarkdownView \in BOOLEAN : ActiveLeafChange(isMarkdownView)
    \/ AutocompleteTimerFires
    \/ \E i \in 1..Len(acCalls), suggestion \in ProviderTexts : AutocompleteResolves(i, suggestion)
    \/ \E i \in 1..Len(acCalls), message \in AutocompleteErrors : AutocompleteRejects(i, message)
    \/ AcceptGuardExpires
    \/ RateLimitCooldownEnds
    \/ GrammarTimerFires
    \/ \E i \in 1..Len(gCalls), suggestions \in GrammarResults : GrammarResolves(i, suggestions)
    \/ \E i \in 1..Len(gCalls), message \in ProviderErrors : GrammarRejects(i, message)
    \/ Tick

FetchSpec ==
    /\ InitWith({"key"}, TRUE, TRUE,
                [edits |-> MaxGrammarEdits, moves |-> 0, triggers |-> 0])
    /\ [][FetchNext]_vars

\* the autocomplete from the provider's answer to its acceptance or
\* dismissal, for the completions of one line and of two
AcceptNext ==
    \/ \E press \in KeyPresses : KeyDown(press.key, press.modifier)
    \/ \E isMarkdownView \in BOOLEAN : ActiveLeafChange(isMarkdownView)
    \/ TriggerManually
    \/ AcceptCommand
    \/ AutocompleteTimerFires
    \/ \E i \in 1..Len(acCalls), suggestion \in CompletionTexts : AutocompleteResolves(i, suggestion)
    \/ AcceptGuardExpires
    \/ Tick

AcceptSpec ==
    /\ InitWith({"key"}, TRUE, FALSE,
                [edits |-> MaxEdits, moves |-> 0, triggers |-> 1])
    /\ [][AcceptNext]_vars

\* the autocomplete with every keydown kept as it is handled
DismissNext ==
    \/ \E press \in KeyPresses : KeyDownRecorded(press.key, press.modifier)
    \/ \E isMarkdownView \in BOOLEAN : ActiveLeafChange(isMarkdownView)
    \/ TriggerManually
    \/ AutocompleteTimerFires
    \/ \E i \in 1..Len(acCalls), suggestion \in ProviderTexts : AutocompleteResolves(i, suggestion)
    \/ AcceptGuardExpires
    \/ Tick

DismissSpec ==
    /\ InitWith({"key"}, TRUE, FALSE,
                [edits |-> MaxEdits, moves |-> 0, triggers |-> 1])
    /\ [][DismissNext]_vars

\* the autocomplete in notes that are short, or about as long as the window
\* of text getSuggestion sends
ContextNext ==
    \/ \E press \in KeyPresses : KeyDown(press.key, press.modifier)
    \/ \E isMarkdownView \in BOOLEAN : ActiveLeafChange(isMarkdownView)
    \/ TriggerManually
    \/ AutocompleteTimerFires
    \/ \E i \in 1..Len(acCalls), suggestion \in ProviderTexts : AutocompleteResolves(i, suggestion)
    \/ AcceptGuardExpires
    \/ Tick

ContextSpec ==
    /\ doc \in InitDocs \cup LongDocs
    /\ cursor = Len(doc)
    /\ ServicesLoaded({"key"}, TRUE, FALSE, [edits |-> MaxEdits, moves |-> 0, triggers |-> 1])
    /\ util = NoCall
    /\ [][ContextNext]_vars

\* the autocomplete with and without an API key, switched on and off in the
\* settings tab
GateNext ==
    \/ \E press \in KeyPresses : KeyDown(press.key, press.modifier)
    \/ \E isMarkdownView \in BOOLEAN : ActiveLeafChange(isMarkdownView)
    \/ ToggleAutocomplete
    \/ TriggerManually
    \/ AutocompleteTimerFires
    \/ \E i \in 1..Len(acCalls), suggestion \in ProviderTexts : AutocompleteResolves(i, suggestion)
    \/ AcceptGuardExpires
    \/ Tick

GateSpec ==
    /\ InitWith({"", "key"}, TRUE, FALSE, [edits |-> MaxEdits, moves |-> 0, triggers |-> 1])
    /\ [][GateNext]_vars

\* both lifecycles up to and after the unload of the plugin: the events and
\* commands registered by onload are gone with it, the timeouts and the
\* provider calls are not
UnloadNext ==
    \/ \E press \in KeyPresses : Loaded /\ KeyDown(press.key, press.modifier)
    \/ \E isMarkdownView \in BOOLEAN : Loaded /\ ActiveLeafChange(isMarkdownView)
    \/ Unload
    \/ AutocompleteTimerFires
    \/ \E i \in 1..Len(acCalls), suggestion \in ProviderTexts : AutocompleteResolves(i, suggestion)
    \/ AcceptGuardExpires
    \/ GrammarTimerFires
    \/ \E i \in 1..Len(gCalls), suggestions \in GrammarResults : GrammarResolves(i, suggestions)
    \/ Tick

UnloadSpec ==
    /\ InitWith({"key"}, TRUE, TRUE,
                [edits |-> MaxGrammarEdits, moves |-> 0, triggers |-> 0])
    /\ [][UnloadNext]_vars

\* the on-demand operations of GrammarService, one at a time, and the
\* cooldown their failures start
OnDemandNext ==
    \/ \E op \in {"correctSelectedText", "improveWriting"}, selection \in Selections(doc) :
          CorrectSelection(op, selection.from, selection.to)
    \/ CorrectEntireDocument
    \/ \E result \in ApiResults : CallAPIResolves(result)
    \/ \E message \in ProviderErrors : CallAPIRejects(message)
    \/ RateLimitCooldownEnds
    \/ Tick

OnDemandSpec ==
    /\ doc \in OnDemandDocs
    /\ cursor = Len(doc)
    /\ ServicesLoaded({"", "key"}, FALSE, FALSE,
                      [edits |-> 0, moves |-> 0, triggers |-> MaxOperations])
    /\ util = NoCall
    /\ [][OnDemandNext]_vars

\* no chat request has been made
NoRequest == [apiKey |-> "", model |-> "", duringTest |-> FALSE]

\* a provider, its configuration set and tested while other calls use it
ProviderNext ==
    \/ \E apiKey \in ApiKeys, model \in Models : TestConnection(apiKey, model)
    \/ \E ok \in BOOLEAN : TestFetchResolves(ok)
    \/ TestFetchThrows
    \/ MakeChatRequest
    \/ \E apiKey \in ApiKeys, model \in Models : SetConfiguration(apiKey, model)

ProviderSpec ==
    /\ doc = <<>>
    /\ cursor = 0
    /\ ServicesLoaded({"key"}, FALSE, FALSE, [edits |-> 0, moves |-> 0, triggers |-> 0])
    /\ \E apiKey \in ApiKeys, model \in Models :
          util = [apiKey |-> apiKey, model |-> model,
                  savedApiKey |-> apiKey, savedModel |-> model,
                  testing |-> FALSE, outcome |-> "none",
                  request |-> NoRequest, returned |-> FALSE]
    /\ [][ProviderNext]_vars

\* the autocomplete with two notes open in two editors
EditorNext ==
    \/ \E press \in KeyPresses : KeyDownInEditor(press.key, press.modifier)
    \/ \E isMarkdownView \in BOOLEAN : ActiveLeafChange(isMarkdownView)
    \/ SwitchEditor
    \/ AutocompleteTimerFires
    \/ \E i \in 1..Len(acCalls), suggestion \in ProviderTexts : ResolvesInEditor(i, suggestion)
    \/ AcceptGuardExpires
    \/ Tick

EditorSpec ==
    /\ PluginLoaded({"key"}, TRUE, FALSE, [edits |-> MaxEdits, moves |-> MaxMoves, triggers |-> 0])
    /\ \E other \in SentenceDocs :
          util = [returned |-> FALSE, editor |-> 1, origin |-> 0,
                  doc |-> other, cursor |-> Len(other)]
    /\ [][EditorNext]_vars

\* what the provider resolves to when two calls overlap: texts that differ
OverlapTexts == ProviderTexts \cup {<<"a", "t">>}

\* the autocomplete with the timeout's call and the manual trigger's call
\* in flight together, their responses arriving in either order
OverlapNext ==
    \/ \E press \in KeyPresses : KeyDown(press.key, press.modifier)
    \/ \E isMarkdownView \in BOOLEAN : ActiveLeafChange(isMarkdownView)
    \/ TriggerManually
    \/ AutocompleteTimerFires
    \/ \E i \in 1..Len(acCalls), suggestion \in OverlapTexts : ResponseArrives(i, suggestion)
    \/ AcceptGuardExpires
    \/ Tick

OverlapSpec ==
    /\ InitWith({"key"}, TRUE, FALSE, [edits |-> MaxEdits, moves |-> 0, triggers |-> 1])
    /\ [][OverlapNext]_vars

\* the autocomplete from the model's reply to the displayed suggestion
ReplyNext ==
    \/ \E press \in KeyPresses : KeyDown(press.key, press.modifier)
    \/ \E isMarkdownView \in BOOLEAN : ActiveLeafChange(isMarkdownView)
    \/ TriggerManually
    \/ AutocompleteTimerFires
    \/ \E i \in 1..Len(acCalls), reply \in Replies : ModelReplies(i, reply)
    \/ AcceptGuardExpires
    \/ Tick

ReplySpec ==
    /\ doc \in SentenceDocs
    /\ cursor = Len(doc)
    /\ ServicesLoaded({"key"}, TRUE, FALSE, [edits |-> MaxEdits, moves |-> 0, triggers |-> 1])
    /\ util = NoCall
    /\ [][ReplyNext]_vars

\* the real-time check while the autocomplete provider calls of the manual
\* trigger are being rejected: the source of rate-limit trips for the checker
RateLimitedCheckNext ==
    \/ \E press \in KeyPresses : KeyDown(press.key, press.modifier)
    \/ \E isMarkdownView \in BOOLEAN : ActiveLeafChange(isMarkdownView)
    \/ TriggerManually
    \/ AutocompleteTimerFires
    \/ \E i \in 1..Len(acCalls), message \in AutocompleteErrors : AutocompleteRejects(i, message)
    \/ RateLimitCooldownEnds
    \/ GrammarTimerFires
    \/ \E i \in 1..Len(gCalls), suggestions \in GrammarResults : GrammarResolves(i, suggestions)
    \/ \E i \in 1..Len(gCalls), message \in ProviderErrors : GrammarRejects(i, message)
    \/ Tick

RateLimitedCheckSpec ==
    /\ InitWith({"", "key"}, TRUE, TRUE,
                [edits |-> MaxEdits, moves |-> 0, triggers |-> MaxTriggers])
    /\ [][RateLimitedCheckNext]_vars

\* the same with the event loop's scheduling: time passes, and the callback
\* of a timeout that is due runs
RateLimitedCheckFairSpec ==
    /\ RateLimitedCheckSpec
    /\ WF_vars(Tick)
    /\ WF_vars(RateLimitCooldownEnds)
    /\ WF_vars(AutocompleteTimerFires)
    /\ WF_vars(GrammarTimerFires)

\* removeDuplicatePrefix applied once to every context and suggestion of the
\* bounded sets, in a plugin that is loaded and idle
RemoveDuplicatePrefixInit ==
    /\ PluginLoaded({""}, FALSE, FALSE, [edits |-> 0, moves |-> 0, triggers |-> 0])
    /\ doc = <<>>
    /\ util \in [context : TextsOf(MaxContextWords),
                  suggestion : TextsOf(MaxSuggestionWords),
                  returned : {FALSE},
                  result : {<<>>}]

RemoveDuplicatePrefixSpec ==
    RemoveDuplicatePrefixInit /\ [][RemoveDuplicatePrefixReturns]_vars

\* the plugin loaded and idle, as it is while a function of textUtils.ts runs
Idle ==
    /\ PluginLoaded({""}, FALSE, FALSE, [edits |-> 0, moves |-> 0, triggers |-> 0])
    /\ doc = <<>>

ShouldTriggerAutocompleteInit ==
    /\ Idle
    /\ util \in [contextBefore : ContextsBefore,
                  minLength : 0..MaxMinLength,
                  returned : {FALSE},
                  result : {FALSE}]

ShouldTriggerAutocompleteSpec ==
    ShouldTriggerAutocompleteInit /\ [][ShouldTriggerAutocompleteReturns]_vars

IsAtSentenceStartInit ==
    /\ Idle
    /\ util \in [contextBefore : ContextsBefore, returned : {FALSE}, result : {FALSE}]

IsAtSentenceStartSpec ==
    IsAtSentenceStartInit /\ [][IsAtSentenceStartReturns]_vars

PreserveCapitalizationInit ==
    /\ Idle
    /\ util \in [originalText : OriginalTexts,
                  correctedText : CorrectedTexts,
                  isStartOfSentence : BOOLEAN,
                  returned : {FALSE},
                  result : {<<>>}]

PreserveCapitalizationSpec ==
    PreserveCapitalizationInit /\ [][PreserveCapitalizationReturns]_vars

\* data is the loaded object as it is handed over, loadedData the same
\* object, which migrateSettings may change
MigrateSettingsInit ==
    /\ Idle
    /\ \E data \in LoadedData :
          util = [data |-> data, loadedData |-> data, returned |-> FALSE,
                  result |-> DEFAULT_SETTINGS]

MigrateSettingsSpec ==
    MigrateSettingsInit /\ [][MigrateSettingsReturns]_vars

\* the popup's Apply button is clicked for the suggestion once, and after
\* the marker was clicked again once more, with no edit in between
ApplySuggestionAgain ==
    /\ util.applied < 2
    /\ doc' = applySuggestion(doc, util.suggestion)
    /\ cursor' = Min(cursor, Len(doc'))
    /\ util' = [util EXCEPT !.applied = @ + 1,
                            !.once = IF util.applied = 0 THEN doc' ELSE @,
                            !.returned = TRUE]
    /\ UNCHANGED <<settings, plugin, ac, rt, acCalls, gCalls, hist, budget>>

ApplySuggestionSpec ==
    /\ doc \in AppliedTexts
    /\ cursor = Len(doc)
    /\ ServicesLoaded({"key"}, FALSE, TRUE, [edits |-> 0, moves |-> 0, triggers |-> 0])
    /\ util \in [suggestion : AppliedSuggestions, applied : {0}, once : {<<>>},
                  returned : {FALSE}]
    /\ [][ApplySuggestionAgain]_vars

ExtractWhitespaceInit ==
    /\ Idle
    /\ util \in [text : SelectedTexts,
                  returned : {FALSE},
                  result : {[leading |-> <<>>, trailing |-> <<>>, content |-> <<>>]}]

ExtractWhitespaceSpec ==
    ExtractWhitespaceInit /\ [][ExtractWhitespaceReturns]_vars

ParseJsonArrayInit ==
    /\ Idle
    /\ util \in [content : ProviderContents, returned : {FALSE}, result : {<<>>}]

ParseJsonArraySpec ==
    ParseJsonArrayInit /\ [][ParseJsonArrayReturns]_vars

----------------------------------------------------------------------------
(* Properties *)

Displayed == ac.currentSuggestion # <<>>

\* the step is an accept: accept is the only code that arms the guard timeout
AcceptStep == Len(ac'.acceptTimers) > Len(ac.acceptTimers)

\* the step starts a provider call of the autocomplete channel
AutocompleteCallStep == Len(acCalls') > Len(acCalls)

\* the step starts a provider call of the grammar channel
GrammarCallStep == Len(gCalls') > Len(gCalls)

\* the step runs the timer callback of a channel
AutocompleteFireStep == hist'.ac.fires > hist.ac.fires
GrammarFireStep == hist'.g.fires > hist.g.fires

OnePendingTimeout ==
    /\ ac.timers # <<>> => ac.timers = <<AutocompleteDebounceTicks - hist.ac.since>>
    /\ rt.timers # <<>> => rt.timers = <<GrammarDebounceTicks - hist.g.since>>
    /\ hist.ac.since <= AutocompleteDebounceTicks
    /\ hist.g.since <= GrammarDebounceTicks

\* a burst either still has its timeout pending and has not run the callback,
\* or has no timeout left and has run it once
OncePerBurst ==
    /\ hist.ac.burst > 0 =>
          \/ ac.timers # <<>> /\ hist.ac.fires = 0
          \/ ac.timers = <<>> /\ hist.ac.fires = 1
    /\ hist.g.burst > 0 =>
          \/ rt.timers # <<>> /\ hist.g.fires = 0
          \/ rt.timers = <<>> /\ hist.g.fires = 1

FiresOnceAfterDelay ==
    /\ AutocompleteFireStep =>
          /\ hist.ac.since = AutocompleteDebounceTicks
          /\ hist.ac.fires = 0
          /\ ac'.timers = <<>>
    /\ GrammarFireStep =>
          /\ hist.g.since = GrammarDebounceTicks
          /\ hist.g.fires = 0
          /\ rt'.timers = <<>>

\* C1: trailing-edge debounce.  On each channel at most one timeout is pending
\* and it is due one debounce delay after the last schedule call that armed
\* one; the channel's callback (getSuggestion, checkGrammar) runs once per
\* burst, exactly one delay after the last call of the burst, and leaves no
\* timeout pending.
C1_TrailingEdgeDebounce ==
    [](OnePendingTimeout /\ OncePerBurst) /\ [][FiresOnceAfterDelay]_vars

\* both callbacks have run, each once, after a burst of at least two calls
C1_Witness ==
    /\ hist.ac.fires = 1 /\ hist.ac.burst = 2
    /\ hist.g.fires = 1 /\ hist.g.burst = 2

OneCooldown ==
    /\ plugin.isRateLimited =>
          plugin.rateLimitTimers = <<RateLimitBackoffTicks - hist.rl.since>>
    /\ ~plugin.isRateLimited => plugin.rateLimitTimers = <<>>

CooldownEndsAfterBackoff ==
    plugin.isRateLimited /\ ~plugin'.isRateLimited =>
        hist.rl.since = RateLimitBackoffTicks

\* C2: the rate-limit retrip does not stack.  While isRateLimited is set
\* exactly one cooldown timeout is pending, due one backoff after the most
\* recent handleRateLimit; the flag is cleared only when that backoff has
\* elapsed, and no timeout is left when it is clear.
C2_RetripDoesNotStack == [](OneCooldown) /\ [][CooldownEndsAfterBackoff]_vars

\* the guard was tripped again at least one tick into a cooldown, and the
\* deadline of the first trip has passed with the flag still set
C2_Witness ==
    /\ plugin.isRateLimited
    /\ hist.rl.retripped
    /\ hist.rl.since > 0

\* the text of the note at [start, end), as far as the note reaches
LiveRange(text, s) == SubSeq(text, s.start + 1, Min(s.end, Len(text)))

\* text with [start, end) replaced by the suggested text and nothing else
ExactReplacement(text, s) ==
    SubSeq(text, 1, s.start) \o s.suggestion \o SubSeq(text, s.end + 1, Len(text))

AppliesIffOriginalIsLive ==
    \A s \in rt.suggestionMarkers \cup rt.popups :
        applySuggestion(doc, s) =
            IF LiveRange(doc, s) = s.original THEN ExactReplacement(doc, s) ELSE doc

ApplyChangesOnlyLiveOriginal ==
    \A s \in rt.popups :
        (s \notin rt'.popups /\ budget' = budget /\ doc' # doc) =>
            /\ LiveRange(doc, s) = s.original
            /\ doc' = ExactReplacement(doc, s)

\* C3: applySuggestion replaces exactly [start, end) with suggestion.suggestion
\* if the text of the note at [start, end) equals suggestion.original when it
\* is applied, and otherwise leaves the note unchanged; a click on Apply
\* changes the note only in the first case and only in that range.
C3_ApplyIffOriginalIsLive ==
    [](AppliesIffOriginalIsLive) /\ [][ApplyChangesOnlyLiveOriginal]_vars

\* the suggestion has been applied after the one edit that started the check
C3_Witness ==
    /\ budget.edits = MaxGrammarEdits - 1
    /\ Len(doc) = Len(HelloWorld) - 2
    /\ SubSeq(doc, Fix2.start + 1, Fix2.start + Len(Fix2.suggestion)) = Fix2.suggestion
    /\ rt.popups = {}

\* C4 (as claimed): a suggestion is displayed by a resolving provider call
\* only if the cursor offset and the text are those the call was issued for.
C4_DisplayedOnlyIfFresh ==
    [][(Len(acCalls') < Len(acCalls) /\ ac' # ac) =>
          \E i \in 1..Len(acCalls) :
              /\ acCalls' = RemoveAt(acCalls, i)
              /\ acCalls[i].cursorOffset = cursor
              /\ acCalls[i].fullText = doc]_vars

\* C5 (as claimed): accept inserts only when the cursor is at the offset the
\* suggestion was generated at.
C5_AcceptOnlyAtAnchor ==
    [][AcceptStep => cursor = ac.currentSuggestion[1].startPos]_vars

AtEndOfLine == CursorCh(doc, cursor) >= LineLength(doc, cursor)

\* C6: acceptance happens only at the end of the line.  Every accept runs with
\* the cursor column at or past the length of its line; an ArrowRight with the
\* cursor inside a line moves the cursor, inserts nothing and leaves the
\* suggestion displayed.
C6_AcceptOnlyAtEndOfLine ==
    [][/\ AcceptStep => AtEndOfLine
       /\ (Displayed /\ ~AtEndOfLine /\ cursor' = cursor + 1 /\ doc' = doc) =>
             ac' = ac]_vars

\* a suggestion was accepted after the user had moved the cursor back
C6_Witness == ac.isAccepting /\ ac.acceptTimers # <<>> /\ budget.moves < MaxMoves

\* C7: no autocomplete provider call starts while the rate-limit flag is set
\* or the API key is empty, whether getSuggestion is run by the debounce
\* timer or by the manual trigger.
C7_NoCallWhenLimitedOrNoKey ==
    [][AutocompleteCallStep => ~plugin.isRateLimited /\ getCurrentApiKey # ""]_vars

\* the debounce callback has just run, one tick or more into a cooldown, and
\* no call is in flight
C7_Witness ==
    /\ plugin.isRateLimited
    /\ hist.rl.since > 0
    /\ hist.ac.fires = 1
    /\ hist.ac.since = AutocompleteDebounceTicks
    /\ acCalls = <<>>

\* C8: the real-time check starts no provider call when the note is empty or
\* whitespace only, when no API key is configured, or when the rate-limit
\* flag is set at the time the debounce timer fires.
C8_NoCheckWhenEmptyNoKeyOrLimited ==
    [][GrammarCallStep =>
          /\ trim(doc) # <<>>
          /\ getCurrentApiKey # ""
          /\ ~plugin.isRateLimited]_vars

\* the debounce callback of the checker has just run, one tick or more into a
\* cooldown, for a note with text and with an API key, and started no call
C8_Witness ==
    /\ plugin.isRateLimited
    /\ hist.rl.since > 0
    /\ hist.g.fires = 1
    /\ hist.g.since = GrammarDebounceTicks
    /\ trim(doc) # <<>>
    /\ getCurrentApiKey # ""
    /\ gCalls = <<>>

\* C9: the re-entrancy guard.  The editor change caused by an accept's own
\* insertion leaves the service as accept made it, with no timeout armed; an
\* editor change handled while isAccepting is set arms no autocomplete
\* timeout either, and a deletion handled then leaves the service exactly as
\* it was (a typed character only hides the suggestion, in handleKeyDown).
C9_GuardSuppressesSchedule ==
    [][/\ AcceptStep => ac' = accept(ac)
       /\ (doc' # doc /\ ac.isAccepting /\ ~AcceptStep) =>
             /\ ac'.timers = ac.timers
             /\ ac' \in {ac, clearAutocomplete(ac)}
             /\ (Len(doc') < Len(doc) => ac' = ac)]_vars

\* a suggestion was accepted in the active editor and no timeout is pending
C9_Witness ==
    /\ ac.isAccepting
    /\ plugin.activeEditor
    /\ settings.autocompleteEnabled
    /\ ac.timers = <<>>
    /\ Len(doc) > Len(HelloWorld)

\* C10 (as claimed): after any editor change in the active editor no
\* suggestion is displayed.
C10_ChangeClearsSuggestion ==
    [][(doc' # doc /\ plugin.activeEditor) => ac'.currentSuggestion = <<>>]_vars

\* C10 (amended): after an editor change in the active editor, handled with
\* autocomplete enabled and the isAccepting guard clear, no suggestion is
\* displayed.
C10_ChangeClearsSuggestionUnlessGuarded ==
    [][(doc' # doc /\ plugin.activeEditor /\ settings.autocompleteEnabled
          /\ ~ac.isAccepting) =>
          ac'.currentSuggestion = <<>>]_vars

\* an editor change has just superseded a displayed suggestion
C10_Witness ==
    /\ hist.ac.superseded
    /\ hist.ac.since = 0
    /\ ~ac.isAccepting
    /\ ac.currentSuggestion = <<>>

\* the guard is limited and its cooldown has just been started
FreshlyTripped(p) ==
    p.isRateLimited /\ p.rateLimitTimers = <<RateLimitBackoffTicks>>

\* callAI's catch trips the guard exactly for the messages that contain "429"
TripsOn429 ==
    \A message \in AutocompleteErrors :
        IF "429" \in message
        THEN FreshlyTripped(callAIRejected(plugin, message))
        ELSE callAIRejected(plugin, message) = plugin

\* the step is the continuation of a rejected autocomplete call that ran
\* handleRateLimit
AutocompleteTripStep ==
    /\ Len(acCalls') = Len(acCalls) - 1
    /\ \/ plugin' # plugin
       \/ hist'.rl # hist.rl

FailureClass(message) ==
    IF "401" \in message \/ "403" \in message THEN "authentication"
    ELSE IF "404" \in message THEN "not found"
    ELSE IF "429" \in message \/ "rate limit" \in message THEN "rate limit"
    ELSE "generic"

\* the class a Notice stands for
NoticeClass(notice) ==
    CASE notice = "Authentication error" -> "authentication"
      [] notice = "API endpoint not found" -> "not found"
      [] notice = "Rate limit reached" -> "rate limit"
      [] OTHER -> "generic"

\* C12: while a real-time check is in flight, its failure with any provider
\* error shows exactly one Notice, the one of the class of the provider's
\* message (authentication for 401/403, not found for 404, rate limit for 429
\* or "rate limit", generic otherwise), and a failure of the rate-limit class
\* trips the guard.
C12_EveryFailureClassified ==
    gCalls # <<>> =>
        \A message \in ProviderErrors :
            LET seen == getGrammarSuggestionsRejected(message)
                notices == checkGrammarNotices(seen)
            IN /\ Cardinality(notices) = 1
               /\ \A notice \in notices : NoticeClass(notice) = FailureClass(message)
               /\ FailureClass(message) = "rate limit" =>
                      FreshlyTripped(checkGrammarRateLimit(plugin, seen))

\* the step runs the callback of the oldest of the pending timeouts
TimerCallback(pending, after) == IsDue(pending) /\ after = Tail(pending)

\* the step is a manual trigger of the autocomplete
ManualTriggerStep == budget'.triggers < budget.triggers

\* the step is the continuation of a provider call that ended
CallEndStep == Len(acCalls') < Len(acCalls) \/ Len(gCalls') < Len(gCalls)

\* the step is the end of the rate-limit cooldown
CooldownEndStep == plugin.isRateLimited /\ ~plugin'.isRateLimited

\* C13: a provider call is started only by the callback of a debounce
\* timeout of its channel or, for the autocomplete, by the manual trigger; a
\* debounce timeout is added only by a step that changes the document; and a
\* step in which a provider call ends (resolved or rejected) or the rate-limit
\* cooldown ends starts no call and leaves the debounce timeouts as they are.
C13_NoAutomaticRetry ==
    [][/\ AutocompleteCallStep =>
             TimerCallback(ac.timers, ac'.timers) \/ ManualTriggerStep
       /\ GrammarCallStep => TimerCallback(rt.timers, rt'.timers)
       /\ (Len(ac'.timers) > Len(ac.timers) \/ Len(rt'.timers) > Len(rt.timers)) =>
             doc' # doc
       /\ (CallEndStep \/ CooldownEndStep) =>
             /\ ~AutocompleteCallStep /\ ~GrammarCallStep
             /\ ac'.timers = ac.timers /\ rt'.timers = rt.timers]_vars

\* a fetch failed with a rate-limit error and the whole cooldown has run
\* without any call started or timeout armed
C13_Witness ==
    /\ plugin.isRateLimited
    /\ IsDue(plugin.rateLimitTimers)
    /\ hist.rl.since = RateLimitBackoffTicks
    /\ acCalls = <<>> /\ gCalls = <<>>
    /\ ac.timers = <<>> /\ rt.timers = <<>>

\* the timeout armed last has the full delay left
ArmedAfresh(pending, delay) == pending # <<>> /\ pending[Len(pending)] = delay

\* the gates of getSuggestion pass for the editor's text and cursor
AutocompleteGatesPass ==
    /\ ~plugin.isRateLimited
    /\ getCurrentApiKey # ""
    /\ shouldTriggerAutocomplete(
           substring(doc, Max(0, cursor - ContextWindow), cursor), MinContextLength)

\* the gates of checkGrammar pass for the editor's text
GrammarGatesPass ==
    /\ trim(doc) # <<>>
    /\ getCurrentApiKey # ""
    /\ ~plugin.isRateLimited

\* C14: in every reachable state, whatever failed before, an editor change
\* in the active editor arms the debounce timeout of each enabled channel with
\* its full delay; the callback of a debounce timeout starts a provider call
\* whenever the gates pass; the rate-limit guard is set only while a cooldown
\* timeout is pending; and, time passing and due callbacks running, a set
\* guard is cleared again and every pending debounce timeout is consumed.
C14_NoFailureIsFatal ==
    /\ [](plugin.isRateLimited => plugin.rateLimitTimers # <<>>)
    /\ [][(doc' # doc /\ plugin.activeEditor) =>
             /\ (settings.autocompleteEnabled /\ ~ac.isAccepting) =>
                    ArmedAfresh(ac'.timers, AutocompleteDebounceTicks)
             /\ settings.realTimeEnabled =>
                    ArmedAfresh(rt'.timers, GrammarDebounceTicks)]_vars
    /\ [][/\ (TimerCallback(ac.timers, ac'.timers) /\ AutocompleteGatesPass) =>
                AutocompleteCallStep
          /\ (TimerCallback(rt.timers, rt'.timers) /\ GrammarGatesPass) =>
                GrammarCallStep]_vars
    /\ plugin.isRateLimited ~> ~plugin.isRateLimited
    /\ (ac.timers # <<>>) ~> (ac.timers = <<>>)
    /\ (rt.timers # <<>>) ~> (rt.timers = <<>>)

\* a fetch failed with a rate-limit error, and an editor change made while
\* the guard was set armed a check that is still pending when the cooldown is
\* about to end
C14_Witness ==
    /\ plugin.isRateLimited
    /\ IsDue(plugin.rateLimitTimers)
    /\ hist.rl.since = RateLimitBackoffTicks
    /\ rt.timers # <<>> /\ ~IsDue(rt.timers)
    /\ budget.edits < MaxEdits

----------------------------------------------------------------------------
(* removeDuplicatePrefix *)

\* the words of a text: its maximal runs of characters other than whitespace
RECURSIVE Words(_)
Words(s) ==
    LET t == trimStart(s)
    IN IF t = <<>> THEN <<>>
       ELSE <<SubSeq(t, 1, WordLength(t))>>
                \o Words(SubSeq(t, WordLength(t) + 1, Len(t)))

\* the words case-folded
Folded(words) == [i \in 1..Len(words) |-> toLowerCaseText(words[i])]

\* the k >= 1 for which the last k words of the context equal,
\* case-insensitively, the first k words of the suggestion
WholeWordOverlaps(context, suggestion) ==
    LET cw == Folded(Words(context))
        sw == Folded(Words(suggestion))
    IN {k \in 1..Min(Len(cw), Len(sw)) :
            SubSeq(cw, Len(cw) - k + 1, Len(cw)) = SubSeq(sw, 1, k)}

Largest(S) == CHOOSE k \in S : \A j \in S : j <= k

\* the words after the first k, joined by single spaces
WordsAfter(text, k) ==
    joinWith(SubSeq(Words(text), k + 1, Len(Words(text))), <<" ">>)

\* C15: when the last k words of the context equal, case-insensitively, the
\* first k words of the suggestion for some k >= 1, removeDuplicatePrefix
\* returns the suggestion's words after the largest such k, joined by single
\* spaces.
C15_MaximalMunch ==
    (util.returned /\ WholeWordOverlaps(util.context, util.suggestion) # {}) =>
        util.result =
            WordsAfter(util.suggestion,
                       Largest(WholeWordOverlaps(util.context, util.suggestion)))

\* a call where the overlap of two words and a shorter one both match and
\* words are left after the larger
C15_Witness ==
    /\ util.returned
    /\ Cardinality(WholeWordOverlaps(util.context, util.suggestion)) >= 2
    /\ util.result # <<>>
    /\ util.result # util.suggestion

\* there is no whole-word overlap and the case-folded first word of the
\* suggestion starts with, and is not, the case-folded last word of the context
PartialWordOverlap(context, suggestion) ==
    LET cw == Words(context)
        sw == Words(suggestion)
    IN /\ WholeWordOverlaps(context, suggestion) = {}
       /\ cw # <<>> /\ sw # <<>>
       /\ startsWith(toLowerCaseText(sw[1]), toLowerCaseText(cw[Len(cw)]))
       /\ toLowerCaseText(sw[1]) # toLowerCaseText(cw[Len(cw)])

\* the first word of the suggestion without its first n characters
FirstWordStripped(suggestion, n) ==
    LET first == Words(suggestion)[1] IN SubSeq(first, n + 1, Len(first))

\* C16: on a partial-word overlap removeDuplicatePrefix returns the first
\* word of the suggestion with the shared prefix stripped, immediately followed
\* by the remaining words of the suggestion joined by single spaces.
C16_PartialWordRule ==
    (util.returned /\ PartialWordOverlap(util.context, util.suggestion)) =>
        util.result =
            FirstWordStripped(util.suggestion,
                              Len(Words(util.context)[Len(Words(util.context))]))
                \o WordsAfter(util.suggestion, 1)

\* C17: when there is neither a whole-word nor a partial-word overlap, in
\* particular when the context has no words, removeDuplicatePrefix returns the
\* suggestion itself.
C17_UnchangedWithoutOverlap ==
    (/\ util.returned
     /\ WholeWordOverlaps(util.context, util.suggestion) = {}
     /\ ~PartialWordOverlap(util.context, util.suggestion)) =>
        util.result = util.suggestion

----------------------------------------------------------------------------
(* shouldTriggerAutocomplete, isAtSentenceStart, preserveCapitalization *)

\* the last character of s that is not whitespace, "" if there is none
LastNonSpaceChar(s) ==
    IF \A i \in 1..Len(s) : IsSpace(s[i]) THEN ""
    ELSE s[CHOOSE i \in 1..Len(s) :
               ~IsSpace(s[i]) /\ \A j \in (i + 1)..Len(s) : IsSpace(s[j])]

\* the characters after which, followed by whitespace, a completion is asked
\* for: . ! ? , ; : a letter, a digit, a quote, ) and ]
TriggerChars ==
    {".", "!", "?", ",", ";", ":", "'", "\"", ")", "]", "0", "1"}
        \cup UpperLetters \cup LowerLetters

\* C18: shouldTriggerAutocomplete is false when the trimmed context is shorter
\* than minLength; otherwise true for the empty context; otherwise, when the
\* last character is whitespace, true exactly when the last character that is
\* not whitespace is . ! ? , ; : a letter, a digit, a quote, ) or ]; and false
\* when the last character is not whitespace.
C18_ShouldTrigger ==
    util.returned =>
        util.result =
            (IF Len(trim(util.contextBefore)) < util.minLength THEN FALSE
             ELSE IF util.contextBefore = <<>> THEN TRUE
             ELSE IF IsSpace(util.contextBefore[Len(util.contextBefore)])
             THEN LastNonSpaceChar(util.contextBefore) \in TriggerChars
             ELSE FALSE)

\* a context long enough that ends in whitespace after a closing bracket
C18_Witness ==
    /\ util.returned
    /\ util.result
    /\ util.minLength = MaxMinLength
    /\ LastNonSpaceChar(util.contextBefore) = "]"
    /\ IsSpace(util.contextBefore[Len(util.contextBefore)])

\* s ends in a newline followed by nothing but whitespace
NewlineThenWhitespace(s) ==
    \E i \in 1..Len(s) :
        s[i] = "\n" /\ LastNonSpaceChar(SubSeq(s, i, Len(s))) = ""

\* C19: isAtSentenceStart is true if and only if the right-trimmed text is
\* empty, or the right-trimmed text ends in . ! or ?, or the text ends in a
\* newline optionally followed by whitespace.
C19_SentenceStart ==
    util.returned =>
        (util.result <=>
            \/ LastNonSpaceChar(util.contextBefore) = ""
            \/ LastNonSpaceChar(util.contextBefore) \in {".", "!", "?"}
            \/ NewlineThenWhitespace(util.contextBefore))

\* a text that ends in a word and a newline: a sentence start only by the
\* newline
C19_Witness ==
    /\ util.returned
    /\ util.result
    /\ LastNonSpaceChar(util.contextBefore) \in UpperLetters \cup LowerLetters
    /\ NewlineThenWhitespace(util.contextBefore)

\* s with only its first character lower-cased
FirstLowered(s) == [i \in 1..Len(s) |-> IF i = 1 THEN toLowerCase(s[i]) ELSE s[i]]

\* the first character of s that is not whitespace is a lower-case letter
StartsLowercase(s) ==
    \E i \in 1..Len(s) :
        s[i] \in LowerLetters /\ \A j \in 1..(i - 1) : IsSpace(s[j])

\* C20: preserveCapitalization returns the correction with only its first
\* character lower-cased when isStartOfSentence is false and the trimmed
\* original starts with a lower-case letter, and the correction unchanged in
\* every other case.
C20_PreserveCapitalization ==
    util.returned =>
        util.result =
            (IF ~util.isStartOfSentence /\ StartsLowercase(util.originalText)
             THEN FirstLowered(util.correctedText)
             ELSE util.correctedText)

\* a correction of two capitals for a lower-case original inside a sentence:
\* the first is lower-cased, the second kept
C20_Witness ==
    /\ util.returned
    /\ ~util.isStartOfSentence
    /\ util.correctedText = <<"T", "O">>
    /\ util.result = <<"t", "O">>

----------------------------------------------------------------------------
(* parseJsonArray *)

\* the JSON values of the replies: numbers, the empty object, and arrays of
\* at most two of them nested twice
Scalars ==
    {[type |-> "number", digits |-> 1], [type |-> "number", digits |-> 2],
     [type |-> "object"]}
ArraysOf(values) ==
    {[type |-> "array", items |-> items] :
        items \in UNION {[1..n -> values] : n \in 0..2}}
JsonArrays == ArraysOf(Scalars \cup ArraysOf(Scalars))

\* JSON.stringify(value)
RECURSIVE stringify(_)
RECURSIVE stringifyItems(_)
stringify(value) ==
    IF value.type = "number" THEN [i \in 1..value.digits |-> "1"]
    ELSE IF value.type = "object" THEN <<"{", "}">>
    ELSE <<"[">> \o stringifyItems(value.items) \o <<"]">>
stringifyItems(items) ==
    IF items = <<>> THEN <<>>
    ELSE IF Len(items) = 1 THEN stringify(items[1])
    ELSE stringify(items[1]) \o <<",">> \o stringifyItems(Tail(items))

\* s without its whitespace
RECURSIVE Compact(_)
Compact(s) ==
    IF s = <<>> THEN s
    ELSE IF IsSpace(Head(s)) THEN Compact(Tail(s))
    ELSE <<Head(s)>> \o Compact(Tail(s))

\* whitespace of s stands between two digits
SplitsDigits(s) ==
    \E i, j \in 1..Len(s) :
        /\ i + 1 < j
        /\ s[i] = "1" /\ s[j] = "1"
        /\ \A k \in (i + 1)..(j - 1) : IsSpace(s[k])

\* text is a JSON text of value: the value's text with whitespace between
\* its tokens
IsJsonTextOf(text, value) ==
    Compact(text) = stringify(value) /\ ~SplitsDigits(text)

\* C21: parseJsonArray returns a list for every content: the array, when the
\* text left after the code fence is stripped and the bracketed part is
\* extracted is the JSON text of an array, and the empty list when that text
\* is no JSON text or the JSON text of a value that is not an array.
C21_ParseJsonArrayFailSoft ==
    util.returned =>
        LET text == extractJson(util.content)
            arrays == {value \in JsonArrays : IsJsonTextOf(text, value)}
        IN /\ util.result \in Seq(Scalars \cup ArraysOf(Scalars))
           /\ arrays # {} => \A value \in arrays : util.result = value.items
           /\ arrays = {} => util.result = <<>>

\* a reply in a code fence whose bracketed part is cut out of other text and
\* is no JSON text: the empty list is returned
C21_Witness ==
    /\ util.returned
    /\ util.result = <<>>
    /\ startsWith(trim(util.content), Fence)
    /\ extractJson(util.content) # trim(util.content)
    /\ startsWith(extractJson(util.content), <<"[">>)
    /\ Len(extractJson(util.content)) > 2

----------------------------------------------------------------------------
(* extractWhitespace *)

\* s is whitespace only
IsBlank(s) == \A i \in 1..Len(s) : IsSpace(s[i])

\* C22: extractWhitespace splits every text without loss: leading and
\* trailing are whitespace, content neither starts nor ends with whitespace,
\* and leading, content and trailing put together are the text.
C22_LosslessSplit ==
    util.returned =>
        /\ IsBlank(util.result.leading)
        /\ IsBlank(util.result.trailing)
        /\ util.result.content = <<>>
              \/ (~IsSpace(Head(util.result.content))
                    /\ ~IsSpace(LastChar(util.result.content)))
        /\ util.result.leading \o util.result.content \o util.result.trailing
              = util.text

----------------------------------------------------------------------------
(* migrateSettings *)

\* the object has a legacy key: an apiKey that is not empty
HasLegacyKey(data) == "apiKey" \in DOMAIN data /\ data.apiKey # ""

HasApiKeys(data) == "apiKeys" \in DOMAIN data

\* settings has every property of the defaults, with the value of overrides
\* where overrides has the property and the default value elsewhere
DefaultsOverriddenBy(overrides, result) ==
    /\ DOMAIN DEFAULT_SETTINGS \subseteq DOMAIN result
    /\ \A k \in DOMAIN result :
          \/ k \in DOMAIN overrides /\ result[k] = overrides[k]
          \/ k \notin DOMAIN overrides /\ k \in DOMAIN DEFAULT_SETTINGS
                /\ result[k] = DEFAULT_SETTINGS[k]

\* C23: migrateSettings returns the defaults overridden by the loaded data;
\* a legacy apiKey without apiKeys becomes apiKeys.zai, with openai and
\* straico empty, and is removed from the loaded object; apiKeys that are
\* there are kept as loaded; null gives the defaults.
C23_MigrateSettings ==
    util.returned =>
        /\ util.data = null => util.result = DEFAULT_SETTINGS /\ util.loadedData = null
        /\ util.data # null =>
              /\ DefaultsOverriddenBy(util.loadedData, util.result)
              /\ \A k \in DOMAIN util.data \ {"apiKey", "apiKeys"} :
                    k \in DOMAIN util.loadedData /\ util.loadedData[k] = util.data[k]
              /\ HasLegacyKey(util.data) /\ ~HasApiKeys(util.data) =>
                    /\ util.result.apiKeys.zai = util.data.apiKey
                    /\ util.result.apiKeys.openai = ""
                    /\ util.result.apiKeys.straico = ""
                    /\ "apiKey" \notin DOMAIN util.loadedData
                    /\ "apiKey" \notin DOMAIN util.result
              /\ HasApiKeys(util.data) =>
                    /\ util.result.apiKeys = util.data.apiKeys
                    /\ util.loadedData = util.data

\* a legacy key has been migrated, next to a provider chosen before
C23_Witness ==
    /\ util.returned
    /\ util.data # null
    /\ HasLegacyKey(util.data) /\ ~HasApiKeys(util.data)
    /\ "provider" \in DOMAIN util.data /\ util.data.provider = "openai"
    /\ util.result.apiKeys.zai = "test-old-key"
    /\ util.result.provider = "openai"
    /\ util.result.realTimeEnabled

----------------------------------------------------------------------------
(* The annotations of the real-time check *)

\* C24: every suggestion held in currentSuggestions after displaySuggestions
\* has start <= end.
C24_StartBeforeEnd ==
    \A suggestion \in rt.currentSuggestions : suggestion.start <= suggestion.end

----------------------------------------------------------------------------
(* Provider calls in flight *)

\* C25 (as claimed): on neither channel does the callback of a debounce
\* timeout start a provider call while an earlier call of that channel is in
\* flight.
C25_OneCallInFlight ==
    [][/\ AutocompleteCallStep => acCalls = <<>>
       /\ GrammarCallStep => gCalls = <<>>]_vars

\* the callback of the only pending timeout of a channel started one call,
\* next to the calls that were in flight
StartsOneCall(timers, timersAfter, calls, callsAfter) ==
    /\ Len(timers) = 1
    /\ TimerCallback(timers, timersAfter)
    /\ timersAfter = <<>>
    /\ Len(callsAfter) = Len(calls) + 1
    /\ SubSeq(callsAfter, 1, Len(calls)) = calls

\* C25 (amended): a provider call is started by the callback of the one
\* debounce timeout pending on its channel, which leaves none pending and
\* starts exactly one call; the calls already in flight on the channel stay
\* in flight.
C25_OneCallPerTimeout ==
    [][/\ AutocompleteCallStep =>
             StartsOneCall(ac.timers, ac'.timers, acCalls, acCalls')
       /\ GrammarCallStep =>
             StartsOneCall(rt.timers, rt'.timers, gCalls, gCalls')]_vars

\* on each channel the calls of two bursts are in flight together
C25_Witness ==
    /\ Len(acCalls) = 2 /\ ac.timers = <<>>
    /\ Len(gCalls) = 2 /\ rt.timers = <<>>

----------------------------------------------------------------------------
(* Acceptance and dismissal *)

\* text with insert put in at offset at
InsertedAt(text, insert, at) ==
    SubSeq(text, 1, at) \o insert \o SubSeq(text, at + 1, Len(text))

DismissStep ==
    /\ util' # util
    /\ ac.currentSuggestion # <<>>
    /\ \/ util'.key = "Escape"
       \/ IsVisibleChar(util'.key) /\ ~util'.modifier

\* C27: with a suggestion displayed, a keydown of Escape or of one visible
\* character without Ctrl, Meta or Alt clears the suggestion and its hint
\* and inserts nothing of it: after Escape the document and the cursor are as
\* before, after a character they differ only by the editor's own insertion
\* of that character.
C27_DismissalWithoutInsertion ==
    [][DismissStep =>
          /\ util'.result = "clear"
          /\ ac'.currentSuggestion = <<>>
          /\ ~ac'.hintElement
          /\ IF util'.key = "Escape"
             THEN doc' = doc /\ cursor' = cursor
             ELSE /\ doc' = InsertedAt(doc, <<util'.key>>, cursor)
                  /\ cursor' = cursor + 1]_vars

\* Escape was pressed with a suggestion displayed, and none is displayed now
C27_Witness ==
    /\ util.returned
    /\ util.key = "Escape"
    /\ util.displayed
    /\ ac.currentSuggestion = <<>>
    /\ ~ac.hintElement
    /\ doc = HelloWorld

----------------------------------------------------------------------------
(* The window of the re-entrancy guard *)

\* the delay of an accept has not yet passed: one of the timeouts that
\* accept set has time left
InAcceptWindow == \E i \in 1..Len(ac.acceptTimers) : ac.acceptTimers[i] > 0

\* C28: isAccepting is set at every instant of the 500 ms that follow an
\* accept.
C28_GuardHeldForWindow == InAcceptWindow => ac.isAccepting

----------------------------------------------------------------------------
(* The end of the cooldown *)

\* C29: handleRateLimit being called finitely often, the rate-limit flag is
\* eventually clear for good, with no cooldown timeout left: each cooldown
\* ends, the one of the last trip included.
C29_CooldownAlwaysEnds ==
    <>[](~plugin.isRateLimited /\ plugin.rateLimitTimers = <<>>)

\* the cooldown of the last of several trips has run: no call is in flight
\* and no trigger is left to cause another trip
C29_Witness ==
    /\ plugin.isRateLimited
    /\ hist.rl.retripped
    /\ IsDue(plugin.rateLimitTimers)
    /\ acCalls = <<>> /\ gCalls = <<>>
    /\ budget.triggers = 0

----------------------------------------------------------------------------
(* Failures and the rate-limit guard *)

\* the provider failures that are not rate-limit failures: authentication,
\* not found, network and generic
OtherFailures ==
    {message \in ProviderErrors : "429" \notin message /\ "rate limit" \notin message}

\* the rate-limit flag and the cooldown timeouts of p and q are the same
SameGuard(p, q) ==
    /\ p.isRateLimited = q.isRateLimited
    /\ p.rateLimitTimers = q.rateLimitTimers

\* the step ran getSuggestion or checkGrammar and a gate kept it from
\* starting a provider call
GateFailureStep ==
    /\ \/ TimerCallback(ac.timers, ac'.timers)
       \/ TimerCallback(rt.timers, rt'.timers)
       \/ ManualTriggerStep
    /\ ~AutocompleteCallStep
    /\ ~GrammarCallStep

\* C30: a failure that is not a rate-limit failure leaves isRateLimited and
\* the cooldown timeout as they were, in both lifecycles: the catch of either
\* lifecycle for an authentication, not-found, network or generic error, and
\* a callback stopped by a gate; a provider call that ends changes them only
\* by a rate-limit trip.
C30_OnlyRateLimitIsDurable ==
    /\ [](\A message \in OtherFailures :
            /\ SameGuard(callAIRejected(plugin, message), plugin)
            /\ SameGuard(checkGrammarRateLimit(plugin,
                              getGrammarSuggestionsRejected(message)), plugin))
    /\ [][GateFailureStep => SameGuard(plugin', plugin)]_vars
    /\ [][(CallEndStep /\ ~SameGuard(plugin', plugin)) => FreshlyTripped(plugin')]_vars

\* the callback of the check has run with the guard set and started no call,
\* and the cooldown of the trip runs on as armed
C30_Witness ==
    /\ plugin.isRateLimited
    /\ hist.rl.since > 0
    /\ plugin.rateLimitTimers = <<RateLimitBackoffTicks - hist.rl.since>>
    /\ ~IsDue(plugin.rateLimitTimers)
    /\ hist.g.fires > 0
    /\ gCalls = <<>> /\ rt.timers = <<>>

----------------------------------------------------------------------------
(* The context of an autocomplete call *)

\* the text in [max(0, offset - ContextWindow), offset)
WindowBefore(text, offset) ==
    LET from == IF offset > ContextWindow THEN offset - ContextWindow ELSE 0
    IN [i \in 1..(offset - from) |-> text[from + i]]

\* the step ran getSuggestion: from the debounce timeout or the manual trigger
GetSuggestionStep == TimerCallback(ac.timers, ac'.timers) \/ ManualTriggerStep

\* C31: every autocomplete provider call is made with the text of the window
\* of ContextWindow characters before the cursor as contextBefore, taken
\* when getSuggestion runs, and only if shouldTriggerAutocomplete accepts
\* that text; when it does not, getSuggestion starts no call and the
\* suggestion state stays as it is.
C31_ContextWindowAndGate ==
    [][/\ AutocompleteCallStep =>
             LET call == acCalls'[Len(acCalls')]
             IN /\ call.cursorOffset = cursor
                /\ call.contextBefore = WindowBefore(doc, cursor)
                /\ shouldTriggerAutocomplete(call.contextBefore, MinContextLength)
       /\ (GetSuggestionStep
             /\ ~shouldTriggerAutocomplete(WindowBefore(doc, cursor), MinContextLength)) =>
             /\ acCalls' = acCalls
             /\ ac'.currentSuggestion = ac.currentSuggestion
             /\ ac'.hintElement = ac.hintElement]_vars

\* a call is in flight for a note longer than the window, with the whole
\* window as its context
C31_Witness ==
    /\ acCalls # <<>>
    /\ Len(acCalls[1].fullText) > ContextWindow
    /\ acCalls[1].cursorOffset > ContextWindow
    /\ Len(acCalls[1].contextBefore) = ContextWindow
    /\ Head(acCalls[1].contextBefore) # "H"

----------------------------------------------------------------------------
(* Gate failures *)

\* a gate stops an autocomplete request: the feature is disabled, no API key
\* is configured, or the context is insufficient
AutocompleteGateFails ==
    \/ ~settings.autocompleteEnabled
    \/ getCurrentApiKey = ""
    \/ ~shouldTriggerAutocomplete(WindowBefore(doc, cursor), MinContextLength)

\* C32: a request stopped by a gate makes no provider call and shows no
\* Notice: the manual trigger shows none while a gate fails, and neither the
\* callback of an armed timeout nor the manual trigger starts a call then.
C32_GateFailureIsSilent ==
    /\ [](AutocompleteGateFails => triggerManuallyNotices = {})
    /\ [][(GetSuggestionStep /\ AutocompleteGateFails) => acCalls' = acCalls]_vars

----------------------------------------------------------------------------
(* From the model's reply to the displayed suggestion *)

\* the step displays the suggestion made of a reply
ReplyDisplayedStep ==
    /\ util' # util
    /\ ac'.currentSuggestion # <<>>
    /\ ac' # ac

\* the letters of the notes and replies, lower case and upper case
IsLowerCase(c) == toUpperCase(c) # c
IsUpperCase(c) == toLowerCase(c) # c

\* C33: the displayed suggestion is the reply passed through
\* removeDuplicatePrefix with the call's context and then through
\* adjustSuggestionCasing with isAtSentenceStart of that context, without
\* the whitespace around it; it is not empty, neither starts nor ends with
\* whitespace, and its first character is not a lower-case letter at the
\* start of a sentence and not an upper-case letter elsewhere.
C33_ReconciliationPipeline ==
    [][ReplyDisplayedStep =>
          LET text == ac'.currentSuggestion[1].text
              context == util'.contextBefore
              atStart == isAtSentenceStart(context)
          IN /\ text = trim(adjustSuggestionCasing(
                            removeDuplicatePrefix(context, util'.reply), atStart))
             /\ text # <<>>
             /\ ~IsSpace(Head(text))
             /\ ~IsSpace(LastChar(text))
             /\ IF atStart THEN ~IsLowerCase(Head(text)) ELSE ~IsUpperCase(Head(text))
             /\ ac'.hintElement]_vars

\* a reply that repeated the last word of the context and went on with a
\* capital is displayed without the word and in lower case
C33_Witness ==
    /\ util.returned
    /\ util.reply = <<"w", "o", "r", "l", "d", " ", "T", "o">>
    /\ ~isAtSentenceStart(util.contextBefore)
    /\ ac.currentSuggestion # <<>>
    /\ ac.currentSuggestion[1].text = <<"t", "o">>

----------------------------------------------------------------------------
(* Overlapping provider calls of one channel *)

\* the response of a call arrives after the response of a call that was
\* started later
LateResponseStep ==
    /\ util' # util
    /\ util'.late

\* C34: of two overlapping provider calls the one started later wins: the
\* response of the older call, arriving after the newer call has completed,
\* does not replace what is displayed.
C34_NewestFetchWins ==
    [][LateResponseStep => /\ ac'.currentSuggestion = ac.currentSuggestion
                           /\ ac'.hintElement = ac.hintElement]_vars

----------------------------------------------------------------------------
(* After the unload of the plugin *)

Unloaded == util.returned

\* C35: once destroy() of the services has run, nothing is displayed again:
\* no autocomplete suggestion, no hint and no grammar annotation is live.
C35_NothingDisplayedAfterDestroy ==
    Unloaded => /\ ac.currentSuggestion = <<>>
                /\ ~ac.hintElement
                /\ rt.currentSuggestions = {}
                /\ rt.suggestionMarkers = {}

----------------------------------------------------------------------------
(* Suggestions and the editor they were computed from *)

\* C36: an accepted autocomplete suggestion is inserted into the editor
\* whose text produced it, also when the active editor has changed since
\* the suggestion was displayed.
C36_AcceptedInOwnEditor ==
    [][AcceptStep => util.origin = util.editor]_vars

----------------------------------------------------------------------------
(* The on-demand operations *)

\* the provider call of the last operation failed and the operation is over
OperationFailed == util.returned /\ ~util.pending /\ util.failed

\* C37: when the provider call of correctSelectedText, correctEntireDocument
\* or improveWriting fails, the note is left as it was before the operation.
C37_UnchangedOnError ==
    OperationFailed => doc = util.before

\* the last operation made a provider request
OperationCalled == util.returned /\ util.called

\* C38: while isRateLimited is true no operation issues a provider request,
\* the on-demand operations of GrammarService included.
C38_CooldownGatesEveryCall ==
    OperationCalled => ~util.limited

----------------------------------------------------------------------------
(* testConnection and the provider's configuration *)

\* the step ends a testConnection
TestEndsStep == util.testing /\ ~util'.testing

\* the step sends a chat request while a testConnection awaits its fetch
RequestDuringTestStep == util'.request # util.request /\ util.testing

\* C39: testConnection leaves the configuration as it was: whatever its
\* outcome, apiKey and model after the call are those before it, and a
\* provider call made meanwhile is sent with those as well.
C39_TestLeavesConfiguration ==
    /\ [][TestEndsStep => /\ util'.apiKey = util.savedApiKey
                          /\ util'.model = util.savedModel]_vars
    /\ [][RequestDuringTestStep =>
             /\ util'.request.apiKey = util.savedApiKey
             /\ util'.request.model = getModel([model |-> util.savedModel])]_vars

----------------------------------------------------------------------------
(* applySuggestion applied twice *)

\* C40: applying the same suggestion twice in a row, with no other edit in
\* between, leaves the note as it was after the first application.
C40_ApplyIsIdempotent ==
    util.applied = 2 => doc = util.once

====
